---- MODULE Spec2Model ----
(***************************************************************************)
(* A model of oxitopdump/bottles.py: the OC110 protocol engine             *)
(* (DataLogger), the records it exchanges (Bottle, BottleHead,             *)
(* BottleReadings) and the device emulator (DummySerial).                  *)
(*                                                                         *)
(* Text is a sequence of ASCII codes.  Time is counted in character times  *)
(* of the emulated line: one tick is 10 / baudrate seconds, 1/960 s at the *)
(* default 9600 baud.  The model keeps no absolute clock: every time the   *)
(* program stores (a CTS deadline, the visibility time of a queued byte)   *)
(* is kept relative to "now", and the passing of d ticks subtracts d from  *)
(* each of them.  The program only ever compares stored times with        *)
(* time.time(), so this is the same behaviour.                             *)
(***************************************************************************)
EXTENDS Integers, Sequences, FiniteSets, TLC

(***************************************************************************)
(* Characters and fixed texts                                              *)
(***************************************************************************)
NUL == 0
LF == 10
CR == 13
COMMA == 44
DASH == 45
DOT == 46
DIGIT0 == 48
GT == 62

PROMPT == <<GT, CR>>                                     \* '>\r'
LOGON == <<76, 79, 71, 79, 78>>                          \* 'LOGON'
OC110 == <<79, 67, 49, 49, 48>>                          \* 'OC110'
INVALID_COMMAND == <<73, 78, 86, 65, 76, 73, 68, 32, 67, 79, 77, 77, 65, 78, 68>>
INVALID_ARGS == <<73, 78, 86, 65, 76, 73, 68, 32, 65, 82, 71, 83>>
INVALID_BOTTLE == <<73, 78, 86, 65, 76, 73, 68, 32, 66, 79, 84, 84, 76, 69>>
INVALID_HEAD == <<73, 78, 86, 65, 76, 73, 68, 32, 72, 69, 65, 68>>
BIOS_BANNER == <<66, 73, 79, 83, 32, 79, 67, 32, 86, 101, 114, 115, 105, 111, 110, 32, 49, 46, 48>>
MAID == <<77, 65, 73, 68>>
CLOC == <<67, 76, 79, 67>>
GAPB == <<71, 65, 80, 66>>
GPRB == <<71, 80, 82, 66>>
GSNS == <<71, 83, 78, 83>>
GMSK == <<71, 77, 83, 75>>

(***************************************************************************)
(* Time, in ticks of 10 / baudrate seconds                                 *)
(***************************************************************************)
CHAR_DELAY == 1        \* delay = 10 / self.baudrate
POLL == 96             \* time.sleep(0.1)
WAKE == 480            \* time.time() + 0.5

\* A sleep may overrun: time.sleep(0.1) takes POLL + j ticks, j in Jitter.
Jitter == {0, 1}
MaxJitter == CHOOSE j \in Jitter : \A k \in Jitter : k <= j

(***************************************************************************)
(* Python's str and list operations, on sequences                          *)
(***************************************************************************)
Max(a, b) == IF a >= b THEN a ELSE b

Take(s, n) == SubSeq(s, 1, n)
Drop(s, n) == SubSeq(s, n + 1, Len(s))

\* s.startswith(p), s.endswith(p)
StartsWith(s, p) == Len(s) >= Len(p) /\ Take(s, Len(p)) = p
EndsWith(s, p) == Len(s) >= Len(p) /\ Drop(s, Len(s) - Len(p)) = p

\* c in s, for one character
HasChar(s, c) == \E i \in 1..Len(s) : s[i] = c

\* the position of the first c in s (s holds one)
FirstIndex(s, c) == CHOOSE i \in 1..Len(s) : s[i] = c /\ \A k \in 1..(i - 1) : s[k] # c

\* the least member of a set of integers that is not empty
Least(S) == CHOOSE i \in S : \A k \in S : i <= k

\* s.split(c): the pieces between the separators, Count(s, c) + 1 of them
RECURSIVE Split(_, _)
Split(s, c) ==
    LET cut(i) == <<Take(s, i - 1)>> \o Split(Drop(s, i), c)
    IN  IF ~HasChar(s, c) THEN <<s>> ELSE cut(FirstIndex(s, c))

\* s.split(c, 1)
Split1(s, c) ==
    LET cut(i) == <<Take(s, i - 1), Drop(s, i)>>
    IN  IF ~HasChar(s, c) THEN <<s>> ELSE cut(FirstIndex(s, c))

\* sep.join(parts)
RECURSIVE Join(_, _)
Join(parts, sep) ==
    IF parts = <<>> THEN <<>>
    ELSE IF Len(parts) = 1 THEN parts[1]
    ELSE parts[1] \o sep \o Join(Tail(parts), sep)

\* ''.join(line + '\r' for line in lines)
RECURSIVE JoinLines(_)
JoinLines(lines) ==
    IF lines = <<>> THEN <<>> ELSE lines[1] \o <<CR>> \o JoinLines(Tail(lines))

\* s.lstrip(c), s.rstrip(c)
RECURSIVE LStrip(_, _)
LStrip(s, c) == IF s # <<>> /\ s[1] = c THEN LStrip(Tail(s), c) ELSE s

RECURSIVE RStrip(_, _)
RStrip(s, c) ==
    IF s # <<>> /\ s[Len(s)] = c THEN RStrip(Take(s, Len(s) - 1), c) ELSE s

\* SumOrd with every character counted as 1
SumOrd_Count(s) == Len(s)

\* sum(ord(c) for c in s)
RECURSIVE SumOrd(_)
SumOrd(s) ==
    IF s = <<>> THEN 0
    ELSE IF Len(s) = 1 THEN s[1]
    ELSE SumOrd(Take(s, Len(s) \div 2)) + SumOrd(Drop(s, Len(s) \div 2))

\* str(n) and '%d' % n, n >= 0
RECURSIVE Dec(_)
Dec(n) == IF n < 10 THEN <<DIGIT0 + n>> ELSE Dec(n \div 10) \o <<DIGIT0 + (n % 10)>>

IsDigit(c) == c >= DIGIT0 /\ c <= DIGIT0 + 9

\* int(s) of a text of decimal digits.  int() raises ValueError on the empty
\* text and on any other character the model's texts can hold (they hold no
\* sign and no blank): IsInt says whether it returns.
IsInt(s) == s # <<>> /\ \A i \in 1..Len(s) : IsDigit(s[i])

RECURSIVE PyInt(_)
PyInt(s) == IF s = <<>> THEN 0 ELSE 10 * PyInt(Take(s, Len(s) - 1)) + (s[Len(s)] - DIGIT0)

\* '%09d' % n
RECURSIVE ZeroPad(_, _)
ZeroPad(s, width) == IF Len(s) >= width THEN s ELSE ZeroPad(<<DIGIT0>> \o s, width)

(***************************************************************************)
(* The records and their wire form (Bottle, BottleHead, BottleReadings).   *)
(* A bottle is [serial, id, start, finish, interval, measurements, mode,   *)
(* bottle_volume, sample_volume, dilution, heads]: start and finish are    *)
(* datetimes [year, month, day, hour, minute, second], interval is in      *)
(* minutes, the volumes are in tenths of a millilitre.  A head is            *)
(* [serial, readings], readings <<>> for None and <<items>> for the         *)
(* BottleReadings of a sequence of integers.                               *)
(***************************************************************************)
\* datetime(year, month, day, hour, minute, second)
Datetime(year, month, day, hour, minute, second) ==
    [year |-> year, month |-> month, day |-> day, hour |-> hour, minute |-> minute,
     second |-> second]

\* '%02d' % n
TwoDigits(n) == <<DIGIT0 + (n \div 10), DIGIT0 + (n % 10)>>

\* the days from 1970-01-01 to the day d of month m of year y
DayNumber(y, m, d) ==
    LET yy == IF m <= 2 THEN y - 1 ELSE y
        era == yy \div 400
        yoe == yy - era * 400
        doy == (153 * (IF m > 2 THEN m - 3 ELSE m + 9) + 2) \div 5 + d - 1
    IN  era * 146097 + yoe * 365 + yoe \div 4 - yoe \div 100 + doy - 719468

DaysInMonth(y, m) ==
    IF m = 12 THEN 31 ELSE DayNumber(y, m + 1, 1) - DayNumber(y, m, 1)

\* the seconds of a datetime since its midnight
SecondOfDay(dt) == dt.hour * 3600 + dt.minute * 60 + dt.second

\* (finish - start).days
DaysBetween(start, finish) ==
    DayNumber(finish.year, finish.month, finish.day)
    - DayNumber(start.year, start.month, start.day)
    - (IF SecondOfDay(finish) < SecondOfDay(start) THEN 1 ELSE 0)

\* dt.strftime(TIMESTAMP_FORMAT): %y is the year without its century
Strftime(dt) ==
    TwoDigits(dt.year % 100) \o TwoDigits(dt.month) \o TwoDigits(dt.day)
    \o TwoDigits(dt.hour) \o TwoDigits(dt.minute) \o TwoDigits(dt.second)

\* the year strptime makes of %y: 69 to 99 are 1969 to 1999, 0 to 68 are 2000 to 2068
PivotYear(yy) == IF yy >= 69 THEN 1900 + yy ELSE 2000 + yy

\* IsDate taking six digits only
IsDate_SixDigits(s) ==
    /\ Len(s) = 6
    /\ \A i \in 1..6 : IsDigit(s[i])
    /\ PyInt(SubSeq(s, 3, 4)) \in 1..12
    /\ PyInt(SubSeq(s, 5, 6)) >= 1
    /\ PyInt(SubSeq(s, 5, 6))
          <= DaysInMonth(PivotYear(PyInt(SubSeq(s, 1, 2))), PyInt(SubSeq(s, 3, 4)))

\* datetime.strptime(s, '%y%m%d'), of a text of digits: whether it returns.
\* %y takes two digits; %m takes 10 to 12 or 01 to 09, else one digit 1 to 9;
\* %d takes 30, 31, 10 to 29 or 01 to 09, else one digit 1 to 9; a month of two
\* digits is given up for one digit when no day follows it.  Text left over
\* after the day, and a day the month does not have, are ValueErrors.
IsDate(s) ==
    LET two(r, tens, units) == Len(r) >= 2 /\ r[1] \in tens /\ r[2] \in units
        one(r) == Len(r) >= 1 /\ r[1] \in 49..57
        month2(r) == two(r, {49}, 48..50) \/ two(r, {48}, 49..57)
        day2(r) == two(r, {51}, 48..49) \/ two(r, 49..50, 48..57) \/ two(r, {48}, 49..57)
        daylen(r) == IF day2(r) THEN 2 ELSE IF one(r) THEN 1 ELSE 0
        monthlen(r) == IF month2(r) /\ daylen(Drop(r, 2)) > 0 THEN 2
                       ELSE IF one(r) /\ daylen(Drop(r, 1)) > 0 THEN 1
                       ELSE 0
        valid(year, month, day) == day <= DaysInMonth(year, month)
        parsed(r, m, d) ==
            /\ m > 0
            /\ Len(r) = m + d
            /\ valid(PivotYear(PyInt(Take(s, 2))), PyInt(Take(r, m)), PyInt(Drop(r, m)))
        matched(r, m) == parsed(r, m, IF m > 0 THEN daylen(Drop(r, m)) ELSE 0)
    IN  /\ Len(s) >= 2
        /\ IsDigit(s[1]) /\ IsDigit(s[2])
        /\ matched(Drop(s, 2), monthlen(Drop(s, 2)))

\* datetime.strptime(s, TIMESTAMP_FORMAT), of a text of twelve digits:
\* whether it returns, and what
IsTimestamp(s) ==
    /\ Len(s) = 12
    /\ IsDate(Take(s, 6))
    /\ \A i \in 7..12 : IsDigit(s[i])
    /\ PyInt(SubSeq(s, 7, 8)) < 24
    /\ PyInt(SubSeq(s, 9, 10)) < 60
    /\ PyInt(SubSeq(s, 11, 12)) < 60

Strptime(s) ==
    [year |-> PivotYear(PyInt(SubSeq(s, 1, 2))), month |-> PyInt(SubSeq(s, 3, 4)),
     day |-> PyInt(SubSeq(s, 5, 6)), hour |-> PyInt(SubSeq(s, 7, 8)),
     minute |-> PyInt(SubSeq(s, 9, 10)), second |-> PyInt(SubSeq(s, 11, 12))]

\* '%.0f' % v, v in tenths: the nearest whole number, the even one of two
RoundHalfEven(tenths) ==
    IF tenths % 10 > 5 \/ (tenths % 10 = 5 /\ (tenths \div 10) % 2 = 1)
    THEN tenths \div 10 + 1 ELSE tenths \div 10

\* '%.1f' % v, v in tenths
OneDecimal(tenths) == Dec(tenths \div 10) \o <<DOT, DIGIT0 + (tenths % 10)>>

\* float(s) of a text of digits with at most one '.', in tenths (what follows
\* the first decimal is dropped): whether it returns, and what
IsFloat(s) ==
    /\ \A i \in 1..Len(s) : IsDigit(s[i]) \/ s[i] = DOT
    /\ \E i \in 1..Len(s) : IsDigit(s[i])
    /\ Len(Split(s, DOT)) <= 2

PyFloat(s) ==
    LET of(parts) ==
            10 * PyInt(parts[1])
            + (IF Len(parts) = 2 /\ parts[2] # <<>> THEN parts[2][1] - DIGIT0 ELSE 0)
    IN  of(Split(s, DOT))

\* ''.join(self.serial.split('-', 1))
SerialDigits(serial) == Join(Split1(serial, DASH), <<>>)

\* '%s-%s' % (serial[:-2], serial[-2:])
SerialDashed(digits) ==
    LET at(n) == Take(digits, n) \o <<DASH>> \o Drop(digits, n)
    IN  at(Max(Len(digits) - 2, 0))

\* the day-count code of Bottle.__str__; any other run length is a KeyError
DayCode(days) ==
    CASE days = 28 -> 10
      [] days = 14 -> 10
      [] days = 3 -> 6
      [] days = 2 -> 4
      [] days = 1 -> 2

\* the interval as it is written: 112 minutes is written 308
\* (timedelta.seconds leaves out the whole days of the interval)
IntervalField(minutes) == IF minutes % 1440 = 112 THEN 308 ELSE minutes % 1440

\* BottleHead.__str__
HeadStr(head) == Join(<< <<>>, head.serial, <<49, 53, 48>>, <<>> >>, <<COMMA>>) \o <<CR>>

RECURSIVE HeadsStr(_)
HeadsStr(heads) == IF heads = <<>> THEN <<>> ELSE HeadStr(heads[1]) \o HeadsStr(Tail(heads))

\* Bottle.__str__
BottleStr(b) ==
    Join(<< <<DIGIT0>>, <<DIGIT0>>, <<51>>,
            Dec(b.id),
            SerialDigits(b.serial),
            Strftime(b.start),
            Strftime(b.finish),
            <<50>>, <<53>>, <<50, 52, 48>>, <<52, 48>>,
            Dec(b.measurements),
            Dec(DaysBetween(b.start, b.finish) * 24 * 60),
            Dec(RoundHalfEven(b.bottle_volume)),
            OneDecimal(b.sample_volume),
            <<DIGIT0>>,
            Dec(DayCode(DaysBetween(b.start, b.finish))),
            <<50>>, <<49>>,
            Dec(IntervalField(b.interval)) >>, <<COMMA>>)
    \o <<CR>> \o HeadsStr(b.heads)

\* ''.join(',%d' % reading for reading in chunk) + '\r', chunk by chunk of 10
RECURSIVE ValueLine(_)
ValueLine(chunk) ==
    IF chunk = <<>> THEN <<>> ELSE <<COMMA>> \o Dec(chunk[1]) \o ValueLine(Tail(chunk))

\* ValueLines with all the readings on one line
ValueLines_OneLine(readings) ==
    IF readings = <<>> THEN <<>> ELSE ValueLine(readings) \o <<CR>>

RECURSIVE ValueLines(_)
ValueLines(readings) ==
    IF readings = <<>> THEN <<>>
    ELSE LET chunk(n) == ValueLine(Take(readings, n)) \o <<CR>> \o ValueLines(Drop(readings, n))
         IN  chunk(IF Len(readings) < 10 THEN Len(readings) ELSE 10)

\* BottleReadings.__str__, for the readings of head on bottle b
ReadingsStr(b, head) ==
    Join(<< ZeroPad(Dec(PyInt(head.serial)), 9),
            SerialDigits(b.serial),
            <<49>>, <<49>>, <<50, 52, 55>>,
            Strftime(b.start),
            Dec(Len(head.readings[1])) >>, <<COMMA>>)
    \o <<CR>> \o ValueLines(head.readings[1])

\* BottleHead.from_string: [exc, serial]
HeadFromString(data) ==
    LET of(f) == IF Len(f) # 4 THEN [exc |-> "ValueError", serial |-> <<>>]
                 ELSE [exc |-> "", serial |-> f[2]]
    IN  of(Split(RStrip(data, CR), COMMA))

\* Bottle.__init__: whether it returns, or raises ValueError
BottleInitOK(serial, id, mode) ==
    LET of(parts) ==
            /\ Len(parts) = 2
            /\ IsDate(parts[1])
            /\ IsInt(parts[2])
            /\ PyInt(parts[2]) >= 1
            /\ PyInt(parts[2]) <= 99
    IN  /\ of(Split1(serial, DASH))
        /\ id >= 1
        /\ id <= 999
        /\ mode \in {"pressure", "bod"}

\* the interval as it is read: 308 is read as 112 minutes
IntervalRead(field) == IF field = 308 THEN 112 ELSE field

\* Bottle.from_string: [exc, bottle]; the heads it makes hold no readings
BottleFromString(data) ==
    LET fail(e) == [exc |-> e, bottle |-> <<>>]
        build(f, hs) ==
            IF Len(f) # 20 THEN fail("ValueError")
            ELSE IF \/ ~IsInt(f[4]) \/ ~IsTimestamp(f[6]) \/ ~IsTimestamp(f[7])
                    \/ ~IsInt(f[20]) \/ ~IsInt(f[12]) \/ ~IsFloat(f[14]) \/ ~IsFloat(f[15])
                 THEN fail("ValueError")
            ELSE IF ~BottleInitOK(SerialDashed(f[5]), PyInt(f[4]), "pressure")
                 THEN fail("ValueError")
            ELSE IF \E i \in 1..Len(hs) : hs[i].exc # "" THEN fail("ValueError")
            ELSE [exc |-> "",
                  bottle |-> [serial |-> SerialDashed(f[5]),
                              id |-> PyInt(f[4]),
                              start |-> Strptime(f[6]),
                              finish |-> Strptime(f[7]),
                              interval |-> IntervalRead(PyInt(f[20])),
                              measurements |-> PyInt(f[12]),
                              mode |-> "pressure",
                              bottle_volume |-> PyFloat(f[14]),
                              sample_volume |-> PyFloat(f[15]),
                              dilution |-> 0,
                              heads |-> [i \in 1..Len(hs) |->
                                            [serial |-> hs[i].serial, readings |-> <<>>]]]]
        heads(lines) == [i \in 1..Len(lines) |-> HeadFromString(lines[i])]
        of(parts) ==
            IF parts[Len(parts)] # <<>> THEN fail("AssertionError")
            ELSE IF Len(parts) = 1 THEN fail("IndexError")
            ELSE build(Split(parts[1], COMMA), heads(SubSeq(parts, 2, Len(parts) - 1)))
    IN  of(Split(data, CR))

\* Blocks with every line a text of its own
Blocks_PerLine(lines, bottle) == [i \in 1..Len(lines) |-> lines[i] \o <<CR>>]

\* the loop of DataLogger.bottles: the texts it hands to Bottle.from_string, one
\* for every line that starts with no comma, with the comma lines that follow;
\* bottle is the text the loop has built so far
RECURSIVE Blocks(_, _)
Blocks(lines, bottle) ==
    LET done == IF bottle # <<>> THEN <<bottle>> ELSE <<>>
    IN  IF lines = <<>> THEN done
        ELSE IF ~StartsWith(lines[1], <<COMMA>>)
        THEN done \o Blocks(Tail(lines), lines[1] \o <<CR>>)
        ELSE Blocks(Tail(lines), bottle \o lines[1] \o <<CR>>)

\* DataLogger.bottles, lines 534-547: [exc, bottles], bottles what the loop
\* had appended to self._bottles when it ended or raised
RECURSIVE DecodeBlocks(_)
DecodeBlocks(blocks) ==
    LET rest(d, r) == [exc |-> r.exc, bottles |-> <<d.bottle>> \o r.bottles]
        first(d) == IF d.exc # "" THEN [exc |-> d.exc, bottles |-> <<>>]
                    ELSE rest(d, DecodeBlocks(Tail(blocks)))
    IN  IF blocks = <<>> THEN [exc |-> "", bottles |-> <<>>]
        ELSE first(BottleFromString(blocks[1]))

BottlesFromListing(data) ==
    LET of(parts) == DecodeBlocks(Blocks(Take(parts, Len(parts) - 1), <<>>))
    IN  of(Split(data, CR))

(***************************************************************************)
(* The emulator, DummySerial.  A port is                                   *)
(*   [opened, timeout, cts_high, read_buf, write_buf, bottles]             *)
(* bottles the catalog, which __init__ fills with FixtureBottles.          *)
(* cts_high is <<>> for None and <<r>> when CTS goes high r ticks from     *)
(* now (r < 0: it is high; the program only tests the sign, so r is kept   *)
(* no lower than -1).  read_buf holds <<character, t>>, visible to read()  *)
(* when t < 0.                                                             *)
(***************************************************************************)
\* the catalog DummySerial.__init__ builds, the readings cut to their first values
\* (510 ml and 432 ml are 5100 and 4320 tenths)
FixtureBottles ==
    << [serial |-> <<49, 49, 48, 50, 50, 50, 45, 48, 54>>,             \* '110222-06'
        id |-> 999,
        start |-> Datetime(2011, 2, 22, 16, 54, 55),
        finish |-> Datetime(2011, 3, 8, 16, 54, 55),
        interval |-> 56, measurements |-> 360, mode |-> "pressure",
        bottle_volume |-> 5100, sample_volume |-> 4320, dilution |-> 0,
        heads |-> << [serial |-> <<54, 48, 49, 48, 56>>,               \* '60108'
                      readings |-> << <<970, 965, 965, 965, 965, 965, 964, 965, 965, 965, 965>> >>] >>],
       [serial |-> <<49, 50, 49, 49, 49, 57, 45, 48, 51>>,             \* '121119-03'
        id |-> 3,
        start |-> Datetime(2012, 11, 19, 13, 53, 4),
        finish |-> Datetime(2012, 11, 22, 13, 53, 4),
        interval |-> 12, measurements |-> 360, mode |-> "pressure",
        bottle_volume |-> 5100, sample_volume |-> 4320, dilution |-> 0,
        heads |-> << [serial |-> <<54, 48, 49, 48, 56>>,               \* '60108'
                      readings |-> << <<>> >>] >>],
       [serial |-> <<49, 50, 48, 51, 50, 51, 45, 48, 49>>,             \* '120323-01'
        id |-> 1,
        start |-> Datetime(2012, 3, 23, 17, 32, 23),
        finish |-> Datetime(2012, 4, 20, 17, 32, 23),
        interval |-> 112, measurements |-> 360, mode |-> "pressure",
        bottle_volume |-> 5100, sample_volume |-> 4320, dilution |-> 0,
        heads |-> << [serial |-> <<54, 48, 49, 52, 53>>,               \* '60145'
                      readings |-> << <<976, 964>> >>],
                     [serial |-> <<54, 48, 49, 52, 51>>,               \* '60143'
                      readings |-> << <<970>> >>] >>] >>

\* d ticks pass
Elapse(p, d) ==
    [p EXCEPT
        !.cts_high = IF @ = <<>> THEN <<>> ELSE << Max(@[1] - d, 0 - 1) >>,
        !.read_buf = [i \in 1..Len(@) |-> << @[i][1], @[i][2] - d >>]]

\* DummySerial._send without the checksum: the characters are queued one
\* character time apart, after the last queued character if there is one
SendText(p, response) ==
    IF ~p.opened THEN p
    ELSE LET at(when) ==
                 [p EXCEPT !.read_buf =
                     @ \o [k \in 1..Len(response) |-> << response[k], when + k * CHAR_DELAY >>]]
         IN  at(IF p.read_buf # <<>> THEN p.read_buf[Len(p.read_buf)][2] ELSE 0)

\* DummySerial._send
Send(p, response, checksum) ==
    IF checksum /\ p.opened
    THEN SendText(SendText(p, response), <<COMMA>> \o Dec(SumOrd(response)) \o <<CR>>)
    ELSE SendText(p, response)

\* DummySerial.__init__: the port is open from the start if it is given a name,
\* and then the boot banner is queued
NewPort(named, timeout) ==
    Send(Send([opened |-> named, timeout |-> timeout, cts_high |-> <<>>,
               read_buf |-> <<>>, write_buf |-> <<>>, bottles |-> FixtureBottles],
              <<NUL, CR, LF>>, FALSE),
         BIOS_BANNER \o <<CR, LF>>, FALSE)

\* DummySerial.setRTS
SetRTS(p, level) ==
    IF level /\ p.cts_high = <<>>
    THEN Send(Send([p EXCEPT !.cts_high = <<WAKE>>], LOGON \o <<CR>>, FALSE), PROMPT, FALSE)
    ELSE [p EXCEPT !.cts_high = <<>>]

\* DummySerial.getCTS
GetCTS(p) == p.cts_high # <<>> /\ p.cts_high[1] < 0

\* str(bottle) and str(head.readings) of the bottles and heads of the catalog
\* DummySerial.__init__ builds
BottleText == [b \in 1..Len(FixtureBottles) |-> BottleStr(FixtureBottles[b])]

AllBottlesText == Join(BottleText, <<>>)

ReadingsText ==
    [b \in 1..Len(FixtureBottles) |->
        [h \in 1..Len(FixtureBottles[b].heads) |->
            ReadingsStr(FixtureBottles[b], FixtureBottles[b].heads[h])]]

\* ''.join(str(bottle) for bottle in self._bottles)
RECURSIVE BottlesStr(_)
BottlesStr(bottles) ==
    IF bottles = <<>> THEN <<>> ELSE BottleStr(bottles[1]) \o BottlesStr(Tail(bottles))

\* str(head.readings) of a head of the emulator: str(None) if it holds none
HeadReadingsStr(b, head) ==
    IF head.readings = <<>> THEN <<78, 111, 110, 101>> ELSE ReadingsStr(b, head)

\* DummySerial._bottle_by_serial: the index of the bottle, 0 for ValueError
BottleBySerial(bottles, serial) ==
    LET first(found) == IF found = {} THEN 0 ELSE Least(found)
        find(s) == first({i \in 1..Len(bottles) : bottles[i].serial = s})
    IN  find(IF ~HasChar(serial, DASH) THEN SerialDashed(serial) ELSE serial)

\* the head the loop of the GMSK branch leaves in `head`: its index, 0 for None
HeadBySerial(bottle, serial) ==
    LET first(found) == IF found = {} THEN 0 ELSE Least(found)
    IN  first({i \in 1..Len(bottle.heads) : bottle.heads[i].serial = serial})

\* DummySerial._process: [port, exc], exc the exception it raises or ""
Process(p, command, args) ==
    LET done(q) == [port |-> Send(q, PROMPT, FALSE), exc |-> ""]
        fail(q, e) == [port |-> q, exc |-> e]
        gprb(b) == IF b = 0 THEN done(Send(p, INVALID_BOTTLE \o <<CR>>, FALSE))
                   ELSE done(Send(p, BottleStr(p.bottles[b]), TRUE))
        readings(bottle, h) ==
            IF h = 0
            \* head is None: head.readings
            THEN fail(Send(p, INVALID_HEAD \o <<CR>>, FALSE), "AttributeError")
            ELSE done(Send(p, HeadReadingsStr(bottle, bottle.heads[h]), TRUE))
        gmsk(b) ==
            IF b = 0
            \* `bottle` is not bound when the loop over its heads starts
            THEN fail(Send(p, INVALID_BOTTLE \o <<CR>>, FALSE), "UnboundLocalError")
            ELSE IF p.bottles[b].heads = <<>>
            \* `head` is not bound when the loop runs no iteration
            THEN fail(p, "UnboundLocalError")
            ELSE readings(p.bottles[b], HeadBySerial(p.bottles[b], args[2]))
    IN  IF command = MAID THEN done(Send(p, OC110 \o <<CR>>, FALSE))
        ELSE IF command = CLOC THEN
            LET q1 == Send(Send(p, <<CR>>, FALSE), PROMPT, FALSE)
                q2 == [q1 EXCEPT !.cts_high = <<WAKE>>]
            IN  done(Send(Send(q2, <<NUL>>, FALSE), LOGON \o <<CR>>, FALSE))
        ELSE IF command = GAPB THEN done(Send(p, BottlesStr(p.bottles), TRUE))
        ELSE IF command = GPRB THEN
            IF Len(args) # 1 THEN done(Send(p, INVALID_ARGS \o <<CR>>, FALSE))
            ELSE gprb(BottleBySerial(p.bottles, args[1]))
        ELSE IF command = GSNS THEN
            IF Len(args) # 1 THEN done(Send(p, INVALID_ARGS \o <<CR>>, FALSE))
            ELSE IF BottleBySerial(p.bottles, args[1]) = 0
                 THEN done(Send(p, INVALID_BOTTLE \o <<CR>>, FALSE))
                 ELSE done(p)
        ELSE IF StartsWith(command, GMSK) THEN
            IF Len(args) # 2 THEN done(Send(p, INVALID_ARGS \o <<CR>>, FALSE))
            ELSE gmsk(BottleBySerial(p.bottles, args[1]))
        ELSE done(Send(p, INVALID_COMMAND \o <<CR>>, FALSE))

\* command.split(','): the command and its arguments
Words(command) == IF HasChar(command, COMMA) THEN Split(command, COMMA) ELSE <<command>>

\* what a call of _process did: the command, its arguments, the exception it
\* raised, and the characters it queued
Dispatched(q, words, r) ==
    [command |-> words[1], args |-> Tail(words), exc |-> r.exc,
     queued |-> [i \in 1..(Len(r.port.read_buf) - Len(q.read_buf)) |->
                    r.port.read_buf[Len(q.read_buf) + i][1]]]

\* Dispatch taking one command a write
Dispatch_Once(p) ==
    LET ran(q, words, r) == [port |-> r.port, exc |-> r.exc, log |-> <<Dispatched(q, words, r)>>]
        run(q, words) == ran(q, words, Process(q, words[1], Tail(words)))
        next(parts) == run([p EXCEPT !.write_buf = parts[2]], Words(parts[1]))
    IN  IF ~HasChar(p.write_buf, CR) THEN [port |-> p, exc |-> "", log |-> <<>>]
        ELSE next(Split1(p.write_buf, CR))

\* the loop of DummySerial.write: one command per '\r' in write_buf, until one
\* raises: [port, exc, log], log what each call of _process did
RECURSIVE Dispatch(_)
Dispatch(p) ==
    LET with(e, d) == [port |-> d.port, exc |-> d.exc, log |-> <<e>> \o d.log]
        rest(e, r) == IF r.exc # "" THEN [port |-> r.port, exc |-> r.exc, log |-> <<e>>]
                      ELSE with(e, Dispatch(r.port))
        ran(q, words, r) == rest(Dispatched(q, words, r), r)
        run(q, words) == ran(q, words, Process(q, words[1], Tail(words)))
        next(parts) == run([p EXCEPT !.write_buf = parts[2]], Words(parts[1]))
    IN  IF ~HasChar(p.write_buf, CR) THEN [port |-> p, exc |-> "", log |-> <<>>]
        ELSE next(Split1(p.write_buf, CR))

\* DummySerial.write: [port, exc, written, log]
Write(p, data) ==
    LET done(r) == [port |-> r.port, exc |-> r.exc, written |-> Len(data), log |-> r.log]
        at(q) == IF ~q.opened
                 THEN [port |-> q, exc |-> "ValueError", written |-> 0, log |-> <<>>]
                 ELSE done(Dispatch([q EXCEPT !.write_buf = @ \o data]))
    IN  at(Elapse(p, Len(data) * CHAR_DELAY))

\* The first queued character not yet visible e ticks from now, from the i-th
\* on; Len(buf) + 1 if all of them are
FirstUnseen(buf, i, e) ==
    LET first(late) == IF late = {} THEN Len(buf) + 1 ELSE Least(late)
    IN  first({k \in i..Len(buf) : buf[k][2] >= e})

\* DummySerial.read(1), called again and again to take the i-th to the n-th
\* queued character, e ticks after the first call, every sleep taking s ticks.
\* A call returns a visible character at once.  Otherwise it sleeps, gives up
\* (returns '') once it has slept for more than the timeout, and looks again.
\* [count, elapsed, empty]: the characters taken, the ticks gone by, and whether
\* the last call returned ''.
RECURSIVE ReadMany(_, _, _, _, _, _)
ReadMany(buf, i, n, e, timeout, s) ==
    LET giveup(i2) ==
            [count |-> i2 - 1, elapsed |-> e + (timeout \div s + 1) * s, empty |-> TRUE]
        wait(i2, sleeps) ==
            IF sleeps * s > timeout THEN giveup(i2)
            ELSE ReadMany(buf, i2, n, e + sleeps * s, timeout, s)
        from(i2) ==
            IF i2 > n THEN [count |-> n, elapsed |-> e, empty |-> FALSE]
            ELSE IF i2 > Len(buf) THEN giveup(i2)
            ELSE wait(i2, (buf[i2][2] - e) \div s + 1)
    IN  from(FirstUnseen(buf, i, e))

(***************************************************************************)
(* The protocol engine, DataLogger                                         *)
(***************************************************************************)
\* The loop of DataLogger._rx reads one character a turn, drops every '\n' and
\* stops when the text it keeps holds '>\r': PromptEnd is the number of queued
\* characters it takes to get there, 0 if the queue holds no prompt.
PromptEnd(buf) ==
    LET first(ends) == IF ends = {} THEN 0 ELSE Least(ends)
    IN  first({b \in 2..Len(buf) :
                  /\ buf[b][1] = CR
                  /\ \E a \in 1..(b - 1) : /\ buf[a][1] = GT
                                           /\ \A k \in (a + 1)..(b - 1) : buf[k][1] = LF})

\* the loop of DataLogger._rx: [port, text, exc]
RxLoop(p, j) ==
    LET read(r) ==
            [port |-> Elapse([p EXCEPT !.read_buf = Drop(@, r.count)], r.elapsed),
             text |-> SelectSeq([i \in 1..r.count |-> p.read_buf[i][1]], LAMBDA c : c # LF),
             exc |-> IF r.empty THEN "ReceiveError" ELSE ""]
        upto(n) == read(ReadMany(p.read_buf, 1, IF n = 0 THEN Len(p.read_buf) + 1 ELSE n, 0,
                                 p.timeout, POLL + j))
    IN  IF ~p.opened THEN [port |-> p, text |-> <<>>, exc |-> "ValueError"]
        ELSE upto(PromptEnd(p.read_buf))

\* response.split('\r')[:-2]
ResponseLines(text) ==
    LET cut(parts) == Take(parts, Max(Len(parts) - 2, 0)) IN cut(Split(text, CR))

\* ChecksumCalculated over the lines without their terminators
ChecksumCalculated_NoCR(lines) == SumOrd(Join(lines, <<>>))

\* the checksum DataLogger._rx computes over the lines before the checksum line
ChecksumCalculated(lines) == SumOrd(JoinLines(lines))

\* what DataLogger._rx makes of the text read up to the prompt: [exc, payload]
Verify(text, checksum) ==
    LET ok(ls) == [exc |-> "", payload |-> JoinLines(ls)]
        fail(e) == [exc |-> e, payload |-> <<>>]
        compare(body, digits) ==
            IF ~IsInt(digits) THEN fail("ValueError")
            ELSE IF PyInt(digits) # ChecksumCalculated(body) THEN fail("ChecksumMismatch")
            ELSE ok(body)
        check(body, checksum_received) ==
            IF ~StartsWith(checksum_received, <<COMMA>>) THEN fail("UnexpectedReply")
            ELSE compare(body, LStrip(checksum_received, COMMA))
        of(lines) ==
            IF ~checksum THEN ok(lines)
            ELSE IF lines = <<>> THEN fail("IndexError")
            ELSE check(Take(lines, Len(lines) - 1), lines[Len(lines)])
    IN  of(ResponseLines(text))

\* Rx setting _seen_prompt before the loop
Rx_SeenFirst(p, checksum, j) ==
    LET checked(r, v) ==
            [port |-> r.port, text |-> r.text, seen |-> TRUE, exc |-> v.exc,
             payload |-> v.payload]
        got(r) ==
            IF r.exc # ""
            THEN [port |-> r.port, text |-> r.text, seen |-> TRUE, exc |-> r.exc,
                  payload |-> <<>>]
            ELSE checked(r, Verify(r.text, checksum))
    IN  got(RxLoop(p, j))

\* DataLogger._rx: [port, text, seen, exc, payload]; seen says that the loop
\* ended and self._seen_prompt was set
Rx(p, checksum, j) ==
    LET checked(r, v) ==
            [port |-> r.port, text |-> r.text, seen |-> TRUE, exc |-> v.exc,
             payload |-> v.payload]
        got(r) ==
            IF r.exc # ""
            THEN [port |-> r.port, text |-> r.text, seen |-> FALSE, exc |-> r.exc,
                  payload |-> <<>>]
            ELSE checked(r, Verify(r.text, checksum))
    IN  got(RxLoop(p, j))

\* ','.join([command] + [str(arg) for arg in args]) + '\r'
Frame(command, args) == Join(<<command>> \o args, <<COMMA>>) \o <<CR>>

\* SyncOK with any text taken
SyncOK_Any(text) == TRUE

\* the test DataLogger._tx makes of what it read while synchronising
SyncOK(text) ==
    EndsWith(text, LOGON \o <<CR>>) \/ EndsWith(text, INVALID_COMMAND \o <<CR>>)

\* IdOK with the text left unread: any reply of five characters is taken
IdOK_AnyFive(reply) == Len(RStrip(reply, CR)) = Len(OC110)

\* the test DataLogger.__init__ makes of the reply to MAID
IdOK(reply) == RStrip(reply, CR) = OC110

\* ReadingsAsserted without the test of the number of readings
ReadingsAsserted_NoCount(f, values, bottle_serial, head_serial) ==
    /\ Dec(PyInt(f[1])) = head_serial
    /\ SerialDashed(f[2]) = bottle_serial

\* the three assertions that end BottleReadings.from_string
ReadingsAsserted(f, values, bottle_serial, head_serial) ==
    /\ Dec(PyInt(f[1])) = head_serial
    /\ SerialDashed(f[2]) = bottle_serial
    /\ Len(values) = PyInt(f[7])

\* BottleReadings.from_string for a head with serial head_serial on a bottle
\* with serial bottle_serial: [exc, items]
ReadingsFromString(data, bottle_serial, head_serial) ==
    LET fail(e) == [exc |-> e, items |-> <<>>]
        build(f, values) ==
            IF Len(f) # 7 THEN fail("ValueError")
            ELSE IF ~IsInt(f[1]) \/ ~IsInt(f[7]) THEN fail("ValueError")
            ELSE IF \E i \in 1..Len(values) : ~IsInt(values[i]) THEN fail("ValueError")
            ELSE IF ~ReadingsAsserted(f, values, bottle_serial, head_serial)
                 THEN fail("AssertionError")
            ELSE [exc |-> "", items |-> [i \in 1..Len(values) |-> PyInt(values[i])]]
        of(parts, lines) ==
            IF parts[Len(parts)] # <<>> THEN fail("AssertionError")
            ELSE IF lines = <<>> THEN fail("IndexError")
            ELSE build(Split(lines[1], COMMA),
                       SelectSeq(Split(Join(Tail(lines), <<COMMA>>), COMMA),
                                 LAMBDA v : v # <<>>))
        split(parts) == of(parts, Take(parts, Len(parts) - 1))
    IN  split(Split(data, CR))

(***************************************************************************)
(* The objects of the caller.  heap.bottles holds every Bottle made so     *)
(* far, and a Bottle is known by its place in it.  A Bottle there has the  *)
(* fields of the record, logger (TRUE for the engine, FALSE for None),     *)
(* live (FALSE for the Bottle that Bottle.refresh read and dropped) and    *)
(* heads, a head being [serial, bottle, readings] with bottle the place of *)
(* the Bottle it refers to, 0 for None.  heap.loose are the heads that are *)
(* in no list.  heap.listing is DataLogger._bottles, <<>> for None and     *)
(* <<places>> for a list.  A head is named <<b, h>>, the h-th head of the  *)
(* Bottle at b, or <<0, h>>, the h-th loose head.                          *)
(***************************************************************************)
\* the Bottle that Bottle.from_string(data, logger) makes at place: its heads
\* refer to it
BottleObject(d, place, bound) ==
    [logger |-> bound, live |-> TRUE] @@
    [d EXCEPT !.heads = [i \in 1..Len(@) |->
                            [serial |-> @[i].serial, bottle |-> place, readings |-> @[i].readings]]]

\* DataLogger.bottles, lines 534-547: the heap with the Bottles read from the
\* listing, bound to the engine, and self._bottles the list of them
Listed(hp, decoded) ==
    [hp EXCEPT
        !.bottles = @ \o [i \in 1..Len(decoded) |->
                             BottleObject(decoded[i], Len(hp.bottles) + i, TRUE)],
        !.listing = << [i \in 1..Len(decoded) |-> Len(hp.bottles) + i] >>]

\* HeadsAfterRefresh with the heads left as from_string made them
HeadsAfterRefresh_Kept(heads, self) == heads

\* Bottle.refresh, lines 247-248: the heads taken from the new Bottle are made
\* to refer to self
HeadsAfterRefresh(heads, self) == [i \in 1..Len(heads) |-> [heads[i] EXCEPT !.bottle = self]]

\* Bottle.refresh, lines 232-248, of the Bottle at self, d what from_string
\* made of the data: the new Bottle has no logger and is dropped on return, self
\* takes every field of it but logger, and the list of heads is the same list
Refreshed(hp, self, d) ==
    LET place == Len(hp.bottles) + 1
        new == BottleObject(d, place, FALSE)
        heads == HeadsAfterRefresh(new.heads, self)
    IN  [hp EXCEPT
            !.bottles = [@ EXCEPT ![self] = [new EXCEPT !.logger = hp.bottles[self].logger,
                                                        !.heads = heads]]
                        \o << [new EXCEPT !.live = FALSE, !.heads = heads] >>]

\* the heads the caller can reach
HeapHeads(hp) ==
    UNION {{<<b, h>> : h \in 1..Len(hp.bottles[b].heads)} :
              b \in {i \in 1..Len(hp.bottles) : hp.bottles[i].live}}
    \cup {<<0, h>> : h \in 1..Len(hp.loose)}

HeadAt(hp, k) == IF k[1] = 0 THEN hp.loose[k[2]] ELSE hp.bottles[k[1]].heads[k[2]]

\* the heap with BottleHead._readings of the head k set
WithReadings(hp, k, r) ==
    IF k[1] = 0 THEN [hp EXCEPT !.loose[k[2]].readings = r]
    ELSE [hp EXCEPT !.bottles[k[1]].heads[k[2]].readings = r]

\* HeadBound with any head taken for a bound one
HeadBound_Any(hp, hd) == TRUE

\* BottleHead.refresh, line 304: the head has a bottle and the bottle a logger
HeadBound(hp, hd) == hd.bottle # 0 /\ hp.bottles[hd.bottle].logger

\* Cached with nothing ever taken for cached
Cached_Never(cache) == FALSE

\* Cached with an empty BottleReadings taken for None
Cached_NotEmpty(cache) == cache # <<>> /\ cache[1] # <<>>

\* `self._bottles is None`, `self._readings is None`: the cache holds something
Cached(cache) == cache # <<>>

(***************************************************************************)
(* The state                                                               *)
(***************************************************************************)
VARIABLES
    port,            \* the DummySerial the engine talks to
    logger,          \* the DataLogger: "none", "init" (in __init__) or "ok"
    seen_prompt,     \* DataLogger._seen_prompt
    readings,        \* BottleHead._readings of the heads bound to the engine:
                     \* <<>> for None, <<items>> once fetched
    pc,              \* where the running operation stands, "idle" between operations
    op,              \* the running operation: [name, command, args, checksum, head], and
                     \* how it found the port: awake (CTS high), pending (characters queued)
    check_response,  \* local of _tx
    response,        \* local of _tx
    cts_wait,        \* local of _tx: the ticks left until its deadline
    outcome,         \* how the last operation ended: "ok" or the exception raised
    reply,           \* what the last _rx of the operation returned
    rx_text,         \* the text the last _rx had read when it ended
    rx_exc,          \* what the last _rx raised, "" if it returned
    sent,            \* the writes of the running operation: [data, written]
    cts_seen,        \* getCTS() returned True during the running _tx
    gsns_sent,       \* the bottles a GSNS frame was written for since the last GPRB frame
    ops,             \* operations started so far
    noise,           \* the line is noisy: it may change a byte, or take part of a write
    tampered,        \* [at, was, now, next, payload] once the line has changed the
                     \* queued byte at, which was followed by next, from was to now;
                     \* payload is the length of the payload of the checksummed
                     \* response the byte was in, 0 if it was in none
    heap,            \* the Bottle and BottleHead objects of the caller, and
                     \* DataLogger._bottles
    dev,             \* a client that drives the DummySerial itself: what it wrote
                     \* and what the emulator made of it
    codec,           \* a Bottle, its text, and the Bottle read back from the text
    app              \* the emulator application: its main thread, its worker, the signals

vars == <<port, logger, seen_prompt, readings, pc, op, check_response, response,
          cts_wait, outcome, reply, rx_text, rx_exc, sent, cts_seen, gsns_sent, ops, noise,
          tampered, heap, dev, codec, app>>

MaxOps == 3
MaxCalls == 6
MaxDevCalls == 3
MaxDevWrites == 2

\* port.timeout: None or 0 (no blocking read), and 0.05 s, 0.45 s, 0.55 s, 0.6 s,
\* one tick more than 0.6 s, 1 s
Timeouts == {0, 48, 432, 528, 576, 577, 960}

\* the time that may pass between two operations
IdleTimes == {WAKE + 1}

\* what a noisy line may turn a byte into: '0', ',', '\r', '>', '\n', 'X'
NoiseBytes == {DIGIT0, COMMA, CR, GT, LF, 88}

HeadKeys == {<<b, h>> \in (1..Len(FixtureBottles)) \X (1..2) : h <= Len(FixtureBottles[b].heads)}

NoOp == [name |-> "", command |-> <<>>, args |-> <<>>, checksum |-> FALSE, head |-> <<>>,
         awake |-> FALSE, pending |-> 0]

\* no byte was changed in flight
NoTamper == [at |-> 0, was |-> 0, now |-> 0, next |-> 0, payload |-> 0]

\* no objects are followed
NoHeap == [on |-> FALSE, listing |-> <<>>, bottles |-> <<>>, loose |-> <<>>]

\* no client drives the emulator itself
NoDev == [on |-> FALSE, calls |-> 0, writes |-> 0, last |-> "", written |-> <<>>, log |-> <<>>, exc |-> "",
          rts |-> <<>>, got |-> <<>>]

\* no Bottle is encoded
NoCodec == [stage |-> "", bottle |-> <<>>, text |-> <<>>, decoded |-> <<>>]

\* no emulator application is running.
NoApp == [main |-> "", worker |-> "", terminated |-> FALSE, signals |-> <<>>, polls |-> 0,
          exc |-> ""]

\* the state once the emulator is built and open, before the engine is; the
\* catalog is the one __init__ builds, or one put in its place
InitWith(timeouts, noisy, catalogs) ==
    /\ \E t \in timeouts, named \in BOOLEAN, c \in catalogs :
          \* DummySerial(port, timeout=t), or DummySerial(timeout=t) and then open()
          port = [NewPort(named, t) EXCEPT !.opened = TRUE, !.bottles = c]
    /\ noise = noisy
    /\ logger = "none"
    /\ seen_prompt = FALSE
    /\ readings = [k \in HeadKeys |-> <<>>]
    /\ pc = "idle"
    /\ op = NoOp
    /\ check_response = FALSE
    /\ response = <<>>
    /\ cts_wait = 0
    /\ outcome = ""
    /\ reply = <<>>
    /\ rx_text = <<>>
    /\ rx_exc = ""
    /\ sent = <<>>
    /\ cts_seen = FALSE
    /\ gsns_sent = {}
    /\ ops = 0
    /\ tampered = NoTamper

Init ==
    /\ InitWith(Timeouts, FALSE, {FixtureBottles})
    /\ heap = NoHeap
    /\ dev = NoDev
    /\ codec = NoCodec
    /\ app = NoApp

\* a noisy line, the timeout 1 s
InitNoise ==
    /\ InitWith({960}, TRUE, {FixtureBottles})
    /\ heap = NoHeap
    /\ dev = NoDev
    /\ codec = NoCodec
    /\ app = NoApp

(***************************************************************************)
(* The operations.  An operation starts from "idle" with the first         *)
(* statements of DataLogger._tx and runs statement by statement (every     *)
(* sleep of the CTS loop, every write and every _rx is a step) until it    *)
(* returns or raises.                                                      *)
(***************************************************************************)
\* the operation ends by raising e (or returns, e = "ok"); a DataLogger whose
\* __init__ raises is never bound
End(e) ==
    /\ pc' = "idle"
    /\ outcome' = e
    /\ logger' = IF op.name = "connect" THEN (IF e = "ok" THEN "ok" ELSE "none") ELSE logger

\* how much longer than asked a time.sleep() may take here; the noisy line,
\* and the engine whose objects are followed, are followed with exact sleeps only
Sleeps == IF noise \/ heap.on THEN {0} ELSE Jitter

\* how many calls are followed: more of them where the objects are, as a call
\* that finds its answer cached is a call
OpLimit == IF heap.on THEN MaxCalls ELSE MaxOps

\* where _tx goes once CTS is high: the probe if no prompt was seen yet
AfterHandshake(seen) == IF seen THEN "send" ELSE "probe"

\* DataLogger._tx, lines 409-418: the first getCTS() and, if it is False, setRTS()
TxBegin(o) ==
    /\ pc = "idle"
    /\ ops < OpLimit
    \* a noisy line is followed up to the end of the first command, or of the
    \* operation it disturbed
    /\ noise => (op.name \in {"", "connect"} /\ tampered = NoTamper)
    /\ ops' = ops + 1
    /\ op' = [o EXCEPT !.awake = GetCTS(port), !.pending = Len(port.read_buf)]
    /\ outcome' = ""
    /\ reply' = <<>>
    /\ rx_text' = <<>>
    /\ rx_exc' = ""
    /\ sent' = <<>>
    /\ check_response' = FALSE
    /\ response' = <<>>
    /\ IF GetCTS(port)
       THEN /\ cts_seen' = TRUE
            /\ pc' = AfterHandshake(seen_prompt')
            /\ UNCHANGED <<port, cts_wait>>
       ELSE /\ cts_seen' = FALSE
            /\ cts_wait' = port.timeout
            /\ port' = SetRTS(port, TRUE)
            /\ pc' = "cts_wait"
    /\ UNCHANGED <<readings, gsns_sent, noise, tampered, heap, dev, codec, app>>

\* DataLogger.__init__: DataLogger(port)
\* Connect without the test of the timeout
Connect_AnyTimeout ==
    /\ seen_prompt' = FALSE
    /\ logger' = "init"
    /\ TxBegin([NoOp EXCEPT !.name = "connect", !.command = MAID])

Connect ==
    /\ pc = "idle"
    /\ ops < OpLimit
    /\ IF port.timeout = 0
       THEN /\ ops' = ops + 1
            /\ op' = [NoOp EXCEPT !.name = "connect"]
            /\ outcome' = "ValueError"
            /\ logger' = "none"
            /\ sent' = <<>>
            /\ UNCHANGED <<port, seen_prompt, readings, pc, check_response, response,
                           cts_wait, reply, rx_text, rx_exc, cts_seen, gsns_sent, noise, tampered,
                           heap, dev, codec, app>>
       ELSE /\ seen_prompt' = FALSE
            /\ logger' = "init"
            /\ TxBegin([NoOp EXCEPT !.name = "connect", !.command = MAID])

\* DataLogger._CLOC, _GAPB, _GPRB, _GSNS on a connected engine
Command(name, command, args, checksum) ==
    /\ logger = "ok"
    /\ UNCHANGED <<logger, seen_prompt>>
    /\ TxBegin([NoOp EXCEPT !.name = name, !.command = command, !.args = args,
                            !.checksum = checksum])

Close == Command("CLOC", CLOC, <<>>, TRUE)

GetAllBottles == Command("GAPB", GAPB, <<>>, TRUE)

GetBottle == \E b \in 1..Len(FixtureBottles) :
    Command("GPRB", GPRB, <<FixtureBottles[b].serial>>, TRUE)

GetSNS == \E b \in 1..Len(FixtureBottles) :
    Command("GSNS", GSNS, <<FixtureBottles[b].serial>>, FALSE)

\* ReadingsOp asking with GSNS
ReadingsOp_GSNS(k) ==
    [NoOp EXCEPT !.name = "readings", !.command = GSNS,
                 !.args = <<FixtureBottles[k[1]].serial>>, !.checksum = FALSE, !.head = k]

\* the operation BottleHead.readings starts when nothing is cached
ReadingsOp(k) ==
    [NoOp EXCEPT !.name = "readings", !.command = GMSK,
                 !.args = <<FixtureBottles[k[1]].serial, FixtureBottles[k[1]].heads[k[2]].serial>>,
                 !.checksum = TRUE, !.head = k]

\* BottleHead.readings, of a head of a bottle the engine listed
Readings == \E k \in HeadKeys :
    /\ logger = "ok"
    /\ IF readings[k] = <<>>
       THEN /\ UNCHANGED <<logger, seen_prompt>>
            /\ TxBegin(ReadingsOp(k))
       ELSE /\ pc = "idle"
            /\ ops < MaxOps
            /\ ops' = ops + 1
            /\ op' = [NoOp EXCEPT !.name = "readings", !.head = k]
            /\ outcome' = "ok"
            /\ sent' = <<>>
            /\ UNCHANGED <<port, logger, seen_prompt, readings, pc, check_response, response,
                           cts_wait, reply, rx_text, rx_exc, cts_seen, gsns_sent, noise, tampered,
                           heap, dev, codec, app>>

\* the caller does nothing for a while
Idle == \E d \in IdleTimes :
    /\ pc = "idle"
    /\ ops < MaxOps
    /\ ops' = ops + 1
    /\ port' = Elapse(port, d)
    /\ UNCHANGED <<logger, seen_prompt, readings, pc, op, check_response, response, cts_wait,
                   outcome, reply, rx_text, rx_exc, sent, cts_seen, gsns_sent, noise, tampered,
                   heap, dev, codec, app>>

\* DeadlinePassed half a second late
DeadlinePassed_Late(left) == left < 0 - WAKE

\* DataLogger._tx, line 416: time.time() > cts_wait, left the ticks to the deadline
DeadlinePassed(left) == left < 0

\* AfterSleep leaving the loop, where it should raise, when the deadline has passed
AfterSleep_GoOn(left, cts) == IF cts \/ left < 0 THEN "drain" ELSE "cts_wait"

\* DataLogger._tx, lines 414-418: after a sleep the loop raises if the deadline
\* has passed, and only then looks at CTS again, where cts is what getCTS() returns
AfterSleep(left, cts) ==
    IF DeadlinePassed(left) THEN "raise" ELSE IF cts THEN "drain" ELSE "cts_wait"

\* DataLogger._tx, lines 414-421: one turn of the loop that waits for CTS
TxPoll == \E j \in Sleeps : \E p \in {Elapse(port, POLL + j)}, left \in {cts_wait - (POLL + j)} :
        /\ pc = "cts_wait"
        /\ port' = p
        /\ cts_wait' = left
        /\ IF AfterSleep(left, GetCTS(p)) = "raise"
           THEN /\ End("HandshakeFailed")
                /\ UNCHANGED <<cts_seen, check_response>>
           ELSE /\ pc' = AfterSleep(left, GetCTS(p))
                /\ cts_seen' = GetCTS(p)
                /\ check_response' = (pc' = "drain")
                /\ UNCHANGED <<logger, outcome>>
        /\ UNCHANGED <<seen_prompt, readings, op, response, reply, rx_text, rx_exc, sent,
                       gsns_sent, ops, noise, tampered, heap, dev, codec, app>>

\* a _rx(checksum=False) of _tx, whose result is added to response
TxRx(at, next(_)) == \E j \in Sleeps : \E r \in {Rx(port, FALSE, j)} :
        /\ pc = at
        /\ port' = r.port
        /\ rx_text' = r.text
        /\ rx_exc' = r.exc
        /\ seen_prompt' = (seen_prompt \/ r.seen)
        /\ IF r.exc # ""
           THEN /\ End(r.exc)
                /\ UNCHANGED response
           ELSE /\ response' = response \o r.payload
                /\ pc' = next(seen_prompt')
                /\ UNCHANGED <<logger, outcome>>
        /\ UNCHANGED <<readings, op, check_response, cts_wait, reply, sent, cts_seen,
                       gsns_sent, ops, noise, tampered, heap, dev, codec, app>>

\* DataLogger._tx, line 422: read what the unit sent as it woke up
TxDrain == TxRx("drain", AfterHandshake)

\* DataLogger._tx, lines 425-427: no prompt seen yet, hit enter
TxProbe == \E w \in {Write(port, <<CR>>)} :
        /\ pc = "probe"
        /\ port' = w.port
        /\ sent' = Append(sent, [data |-> <<CR>>, written |-> w.written])
        /\ check_response' = TRUE
        /\ IF w.exc # "" THEN End(w.exc) ELSE pc' = "probe_rx" /\ UNCHANGED <<logger, outcome>>
        /\ UNCHANGED <<seen_prompt, readings, op, response, cts_wait, reply, rx_text, rx_exc,
                       cts_seen, gsns_sent, ops, noise, tampered, heap, dev, codec, app>>

\* DataLogger._tx, line 428
TxProbeRx == TxRx("probe_rx", LAMBDA seen : "send")

\* WholeFrame content with any character written
WholeFrame_Some(written, data) == written > 0

\* DataLogger._tx, line 438: written = len(data)
WholeFrame(written, data) == written = Len(data)

\* DataLogger._tx, lines 431-440: the check of what was read, and the frame.
\* The port takes the first n characters of the frame and reports n written.
TxWrite(n) == \E data \in {Frame(op.command, op.args)} : \E w \in {Write(port, Take(data, n))} :
        /\ pc = "send"
        /\ IF check_response /\ ~SyncOK(response)
           THEN /\ End("UnexpectedReply")
                /\ UNCHANGED <<port, sent, gsns_sent>>
           ELSE /\ port' = w.port
                /\ sent' = Append(sent, [data |-> data, written |-> n])
                /\ gsns_sent' = IF ~WholeFrame(n, data) THEN gsns_sent
                                ELSE IF op.command = GPRB THEN {}
                                ELSE IF op.command = GSNS THEN gsns_sent \cup {op.args[1]}
                                ELSE gsns_sent
                /\ IF w.exc # "" THEN End(w.exc)
                   ELSE IF ~WholeFrame(n, data) THEN End("PartialSend")
                   ELSE pc' = "rx" /\ UNCHANGED <<logger, outcome>>
        /\ UNCHANGED <<seen_prompt, readings, op, check_response, response, cts_wait, reply,
                       rx_text, rx_exc, cts_seen, ops, noise, tampered, heap, dev, codec, app>>

\* on DummySerial, write() takes all of the frame
TxSend == TxWrite(Len(Frame(op.command, op.args)))

\* Finish with BottleHead.readings setting an empty list before it decodes
Finish_EmptyFirst(o, payload, p, seen, rd, hp) ==
    LET same(e) == [exc |-> e, port |-> p, seen_prompt |-> seen, readings |-> rd, heap |-> hp]
        with(e, hp2) ==
            [exc |-> e, port |-> p, seen_prompt |-> seen, readings |-> rd, heap |-> hp2]
        cache(d) == IF d.exc # "" THEN same(d.exc)
                    ELSE [exc |-> "ok", port |-> p, seen_prompt |-> seen,
                          readings |-> [rd EXCEPT ![o.head] = <<d.items>>], heap |-> hp]
        \* DataLogger.bottles: what was appended stays in self._bottles if from_string raises
        listed(d) == with(IF d.exc # "" THEN d.exc ELSE "ok", Listed(hp, d.bottles))
        \* Bottle.refresh
        refreshed(d) == IF d.exc # "" THEN same(d.exc)
                        ELSE with("ok", Refreshed(hp, o.head[1], d.bottle))
        \* BottleHead.readings
        fetched(d) == IF d.exc # "" THEN with(d.exc, WithReadings(hp, o.head, << <<>> >>))
                      ELSE with("ok", WithReadings(hp, o.head, <<d.items>>))
    IN  CASE o.name = "connect" ->
               same(IF IdOK(payload) THEN "ok" ELSE "UnexpectedReply")
          [] o.name = "CLOC" ->
               [exc |-> "ok", port |-> SetRTS(p, FALSE), seen_prompt |-> FALSE, readings |-> rd,
                heap |-> hp]
          [] o.name = "readings" ->
               cache(ReadingsFromString(payload, o.args[1], o.args[2]))
          [] o.name = "bottles" -> listed(BottlesFromListing(payload))
          [] o.name = "Bottle.refresh" -> refreshed(BottleFromString(payload))
          [] o.name = "BottleHead.readings" ->
               fetched(ReadingsFromString(payload, o.args[1], o.args[2]))
          [] OTHER -> same("ok")

\* what the operation does with the payload once its command's _rx has returned
\* it: [exc, port, seen_prompt, readings, heap]
Finish(o, payload, p, seen, rd, hp) ==
    LET same(e) == [exc |-> e, port |-> p, seen_prompt |-> seen, readings |-> rd, heap |-> hp]
        with(e, hp2) ==
            [exc |-> e, port |-> p, seen_prompt |-> seen, readings |-> rd, heap |-> hp2]
        cache(d) == IF d.exc # "" THEN same(d.exc)
                    ELSE [exc |-> "ok", port |-> p, seen_prompt |-> seen,
                          readings |-> [rd EXCEPT ![o.head] = <<d.items>>], heap |-> hp]
        \* DataLogger.bottles: what was appended stays in self._bottles if from_string raises
        listed(d) == with(IF d.exc # "" THEN d.exc ELSE "ok", Listed(hp, d.bottles))
        \* Bottle.refresh
        refreshed(d) == IF d.exc # "" THEN same(d.exc)
                        ELSE with("ok", Refreshed(hp, o.head[1], d.bottle))
        \* BottleHead.readings
        fetched(d) == IF d.exc # "" THEN same(d.exc)
                      ELSE with("ok", WithReadings(hp, o.head, <<d.items>>))
    IN  CASE o.name = "connect" ->
               same(IF IdOK(payload) THEN "ok" ELSE "UnexpectedReply")
          [] o.name = "CLOC" ->
               [exc |-> "ok", port |-> SetRTS(p, FALSE), seen_prompt |-> FALSE, readings |-> rd,
                heap |-> hp]
          [] o.name = "readings" ->
               cache(ReadingsFromString(payload, o.args[1], o.args[2]))
          [] o.name = "bottles" -> listed(BottlesFromListing(payload))
          [] o.name = "Bottle.refresh" -> refreshed(BottleFromString(payload))
          [] o.name = "BottleHead.readings" ->
               fetched(ReadingsFromString(payload, o.args[1], o.args[2]))
          [] OTHER -> same("ok")

\* CmdRx returning at once, with nothing read
CmdRx_NoWait ==
    /\ pc = "rx"
    /\ rx_text' = <<>>
    /\ rx_exc' = ""
    /\ reply' = <<>>
    /\ End("ok")
    /\ UNCHANGED <<port, seen_prompt, readings, heap, op, check_response, response, cts_wait,
                   sent, cts_seen, gsns_sent, ops, noise, tampered, dev, codec, app>>

\* the _rx of the command, and the rest of the operation
CmdRx ==
    /\ pc = "rx"
    /\ \E j \in Sleeps : \E r \in {Rx(port, op.checksum, j)} :
        \E f \in {Finish(op, r.payload, r.port, seen_prompt \/ r.seen, readings, heap)} :
            /\ rx_text' = r.text
            /\ rx_exc' = r.exc
            /\ IF r.exc # ""
               THEN /\ End(r.exc)
                    /\ port' = r.port
                    /\ seen_prompt' = (seen_prompt \/ r.seen)
                    /\ UNCHANGED <<readings, reply, heap>>
               ELSE /\ End(f.exc)
                    /\ reply' = r.payload
                    /\ port' = f.port
                    /\ seen_prompt' = f.seen_prompt
                    /\ readings' = f.readings
                    /\ heap' = f.heap
            /\ UNCHANGED <<op, check_response, response, cts_wait, sent, cts_seen, gsns_sent,
                           ops, noise, tampered, dev, codec, app>>

\* The length of the payload of the checksummed response that is all the
\* queue holds (payload, checksum line, prompt), 0 if the queue is no such response
PayloadLen(buf) ==
    LET of(v) == IF v.exc = "" THEN Len(v.payload) ELSE 0
        text == [i \in 1..Len(buf) |-> buf[i][1]]
    IN  IF PromptEnd(buf) = Len(buf) /\ ~HasChar(text, LF) THEN of(Verify(text, TRUE)) ELSE 0

\* a write of which the line takes only the first n characters
TxSendShort == \E n \in 0..(Len(Frame(op.command, op.args)) - 1) :
    /\ noise
    /\ TxWrite(n)

\* the line changes one byte that is on its way to the engine
Tamper == \E i \in 1..Len(port.read_buf), c \in NoiseBytes :
    /\ noise
    /\ tampered = NoTamper
    /\ pc \in {"drain", "probe_rx", "rx"}
    /\ port.read_buf[i][1] # c
    /\ port' = [port EXCEPT !.read_buf[i][1] = c]
    /\ tampered' = [at |-> i, was |-> port.read_buf[i][1], now |-> c,
                    next |-> IF i < Len(port.read_buf) THEN port.read_buf[i + 1][1] ELSE 0,
                    payload |-> IF pc = "rx" /\ op.checksum THEN PayloadLen(port.read_buf)
                                ELSE 0]
    /\ UNCHANGED <<logger, seen_prompt, readings, pc, op, check_response, response, cts_wait,
                   outcome, reply, rx_text, rx_exc, sent, cts_seen, gsns_sent, ops, noise,
                   heap, dev, codec, app>>

(***************************************************************************)
(* The calls on the objects: DataLogger.bottles and refresh, Bottle.refresh,*)
(* BottleHead.readings and refresh.                                        *)
(***************************************************************************)
\* a call o that ends at once with e, the transport not touched
Returns(o, e) ==
    /\ pc = "idle"
    /\ ops < OpLimit
    /\ ops' = ops + 1
    /\ op' = o
    /\ outcome' = e
    /\ sent' = <<>>
    /\ reply' = <<>>
    /\ rx_text' = <<>>
    /\ rx_exc' = ""
    /\ UNCHANGED <<port, logger, seen_prompt, readings, pc, check_response, response, cts_wait,
                   cts_seen, gsns_sent, noise, tampered, dev, codec, app>>

\* DataLogger.bottles
Bottles ==
    /\ heap.on
    /\ logger = "ok"
    /\ IF Cached(heap.listing)
       THEN /\ Returns([NoOp EXCEPT !.name = "bottles"], "ok")
            /\ UNCHANGED heap
       ELSE /\ UNCHANGED <<logger, seen_prompt>>
            /\ TxBegin([NoOp EXCEPT !.name = "bottles", !.command = GAPB, !.checksum = TRUE])

\* DataLogger.refresh
LoggerRefresh ==
    /\ heap.on
    /\ logger = "ok"
    /\ Returns([NoOp EXCEPT !.name = "DataLogger.refresh"], "ok")
    /\ heap' = [heap EXCEPT !.listing = <<>>]

\* Bottle.refresh, of a Bottle the caller holds
BottleRefresh == \E b \in {i \in 1..Len(heap.bottles) : heap.bottles[i].live} :
    /\ heap.on
    /\ IF heap.bottles[b].logger
       THEN /\ UNCHANGED <<logger, seen_prompt>>
            /\ TxBegin([NoOp EXCEPT !.name = "Bottle.refresh", !.command = GPRB,
                                    !.args = <<heap.bottles[b].serial>>, !.checksum = TRUE,
                                    !.head = <<b>>])
       ELSE /\ Returns([NoOp EXCEPT !.name = "Bottle.refresh", !.head = <<b>>], "RuntimeError")
            /\ UNCHANGED heap

\* BottleHead.readings, of a head the caller holds
HeadReadings == \E k \in HeapHeads(heap) : \E hd \in {HeadAt(heap, k)} :
    /\ heap.on
    /\ IF Cached(hd.readings)
       THEN /\ Returns([NoOp EXCEPT !.name = "BottleHead.readings", !.head = k], "ok")
            /\ UNCHANGED heap
       ELSE IF hd.bottle = 0
       \* self.bottle is None: self.bottle.logger
       THEN /\ Returns([NoOp EXCEPT !.name = "BottleHead.readings", !.head = k],
                       "AttributeError")
            /\ UNCHANGED heap
       ELSE IF ~heap.bottles[hd.bottle].logger
       \* nothing to ask: None is returned
       THEN /\ Returns([NoOp EXCEPT !.name = "BottleHead.readings", !.head = k], "ok")
            /\ UNCHANGED heap
       ELSE /\ UNCHANGED <<logger, seen_prompt>>
            /\ TxBegin([NoOp EXCEPT !.name = "BottleHead.readings", !.command = GMSK,
                                    !.args = <<heap.bottles[hd.bottle].serial, hd.serial>>,
                                    !.checksum = TRUE, !.head = k])

\* BottleHead.refresh, of a head the caller holds
HeadRefresh == \E k \in HeapHeads(heap) :
    /\ heap.on
    /\ IF HeadBound(heap, HeadAt(heap, k))
       THEN /\ Returns([NoOp EXCEPT !.name = "BottleHead.refresh", !.head = k], "ok")
            /\ heap' = WithReadings(heap, k, <<>>)
       ELSE /\ Returns([NoOp EXCEPT !.name = "BottleHead.refresh", !.head = k], "RuntimeError")
            /\ UNCHANGED heap

Next ==
    \/ Connect
    \/ Close
    \/ GetAllBottles
    \/ GetBottle
    \/ GetSNS
    \/ Readings
    \/ Idle
    \/ TxPoll
    \/ TxDrain
    \/ TxProbe
    \/ TxProbeRx
    \/ TxSend
    \/ CmdRx

Spec == Init /\ [][Next]_vars

NextNoise ==
    \/ Next
    \/ TxSendShort
    \/ Tamper

SpecNoise == InitNoise /\ [][NextNoise]_vars

(***************************************************************************)
(* A device that sends line feeds, as the unit does in its BIOS output,    *)
(* while the engine waits in the _rx of its command.  The engine's loop    *)
(* is followed one read at a time where it reads a line feed.              *)
(***************************************************************************)
\* the device sends a '\n' ahead of what it has queued
DeviceLineFeed ==
    /\ pc = "rx"
    /\ port.opened
    /\ port.read_buf = <<>> \/ port.read_buf[1][1] # LF
    /\ port' = [port EXCEPT !.read_buf = << <<LF, 0 - 1>> >> \o @]
    /\ UNCHANGED <<logger, seen_prompt, readings, pc, op, check_response, response, cts_wait,
                   outcome, reply, rx_text, rx_exc, sent, cts_seen, gsns_sent, ops, noise,
                   tampered, heap, dev, codec, app>>

\* DataLogger._rx, lines 451-458: a turn of the loop in which read() returns
\* '\n' at once; the character is dropped and the loop goes on
RxLineFeed ==
    /\ pc = "rx"
    /\ port.opened
    /\ port.read_buf # <<>>
    /\ port.read_buf[1] = <<LF, 0 - 1>>
    /\ port' = [port EXCEPT !.read_buf = Tail(@)]
    /\ UNCHANGED <<logger, seen_prompt, readings, pc, op, check_response, response, cts_wait,
                   outcome, reply, rx_text, rx_exc, sent, cts_seen, gsns_sent, ops, noise,
                   tampered, heap, dev, codec, app>>

NextLine ==
    \/ Next
    \/ DeviceLineFeed
    \/ RxLineFeed

\* The engine is one thread that always goes on to its next statement, the
\* device is free to send or not: weak fairness of the steps that are not the
\* device's, which are enabled exactly while an operation runs, and of the
\* read of a line feed that is there.
SpecLine ==
    /\ Init /\ [][NextLine]_vars
    /\ WF_vars(RxLineFeed)
    /\ ([]<>(pc = "idle") \/ []<><<~DeviceLineFeed>>_vars)

\* a Bottle made by hand, with no logger, and a head made with no bottle
HandMade ==
    BottleObject([FixtureBottles[2] EXCEPT !.heads[1].readings = << <<970>> >>], 1, FALSE)

LooseHead == [serial |-> <<54, 48, 49, 48, 56>>, bottle |-> 0, readings |-> << <<970>> >>]

\* the catalogs of the emulator: the one __init__ builds, none, and one whose
\* first bottle has no head
Catalogs ==
    {FixtureBottles, <<>>, << [FixtureBottles[1] EXCEPT !.heads = <<>>], FixtureBottles[3] >>}

InitObjects ==
    /\ InitWith({960}, FALSE, Catalogs)
    /\ heap = [on |-> TRUE, listing |-> <<>>, bottles |-> <<HandMade>>, loose |-> <<LooseHead>>]
    /\ dev = NoDev
    /\ codec = NoCodec
    /\ app = NoApp

(***************************************************************************)
(* A client that drives the DummySerial itself: write, setRTS, and time     *)
(* passing.  dev.written is all it wrote, dev.log every call of _process    *)
(* so far, dev.exc what the last write raised, dev.last the last call.      *)
(* dev.rts is <<>> while RTS is not asserted and after a CLOC, and <<age>>  *)
(* otherwise: the ticks since the client last asserted RTS, no more than    *)
(* one past the wake delay.                                                *)
(***************************************************************************)
\* what the client writes: '110222-07' is in no catalog, '60145' is a head of
\* 120323-01 only
DevTexts ==
    << <<77, 65>>,                                                       \* 'MA'
       <<73, 68, CR>> \o GAPB \o <<CR>>,                                 \* 'ID\rGAPB\r'
       <<CR, 88, 89, 90, CR>> \o CLOC \o <<CR>>,                         \* '\rXYZ\rCLOC\r'
       \* the wrong number of arguments, then a bottle that is not there
       GPRB \o <<CR>> \o Frame(GSNS, << <<49>>, <<50>> >>)
       \o Frame(GMSK, << <<49, 49, 48, 50, 50, 50, 45, 48, 54>> >>)
       \o Frame(GPRB, << <<49, 49, 48, 50, 50, 50, 48, 55>> >>)
       \o Frame(GSNS, << <<49, 49, 48, 50, 50, 50, 45, 48, 55>> >>),
       Frame(GMSK, << <<49, 49, 48, 50, 50, 50, 45, 48, 55>>, <<54, 48, 49, 48, 56>> >>),
       \* a head that is not on the bottle, and a command after it
       Frame(GMSK, << <<49, 49, 48, 50, 50, 50, 45, 48, 54>>, <<54, 48, 49, 52, 53>> >>)
       \o MAID \o <<CR>>,
       \* a bottle and a head that are there
       Frame(GPRB, << <<49, 50, 49, 49, 49, 57, 48, 51>> >>)
       \o Frame(GSNS, << <<49, 49, 48, 50, 50, 50, 45, 48, 54>> >>)
       \o Frame(GMSK, << <<49, 50, 48, 51, 50, 51, 45, 48, 49>>, <<54, 48, 49, 52, 51>> >>) >>

\* just less, and just more, than the wake delay
DevWaits == {WAKE - 1, WAKE + 1}

\* a call of the client
DevCall(name) ==
    /\ dev.on
    /\ dev.calls < MaxDevCalls
    /\ UNCHANGED <<logger, seen_prompt, readings, pc, op, check_response, response, cts_wait,
                   outcome, reply, rx_text, rx_exc, sent, cts_seen, gsns_sent, ops, noise,
                   tampered, heap, codec, app>>

\* the age of the assertion of RTS, d ticks on
Older(rts, d) ==
    IF rts = <<>> THEN <<>> ELSE << IF rts[1] + d > WAKE THEN WAKE + 1 ELSE rts[1] + d >>

\* port.write(data)
DevWrite ==
    /\ DevCall("write")
    /\ dev.writes < MaxDevWrites
    /\ \E i \in 1..Len(DevTexts) : \E w \in {Write(port, DevTexts[i])} :
            /\ port' = w.port
            /\ dev' = [dev EXCEPT !.calls = @ + 1, !.last = "write", !.writes = @ + 1,
                                  !.written = @ \o DevTexts[i],
                                  !.log = @ \o w.log,
                                  !.exc = w.exc,
                                  !.rts = IF \E e \in 1..Len(w.log) : w.log[e].command = CLOC THEN <<>>
                                          ELSE Older(@, Len(DevTexts[i]) * CHAR_DELAY)]

\* port.setRTS(level)
DevSetRTS == \E level \in BOOLEAN :
    /\ DevCall("setRTS")
    /\ port' = SetRTS(port, level)
    /\ dev' = [dev EXCEPT !.calls = @ + 1,
                          !.last = IF level THEN "setRTS(True)" ELSE "setRTS(False)",
                          !.rts = IF level THEN <<0>> ELSE <<>>]

\* time.sleep(d)
DevWait == \E d \in DevWaits :
    /\ DevCall("sleep")
    /\ port' = Elapse(port, d)
    /\ dev' = [dev EXCEPT !.calls = @ + 1, !.last = "sleep", !.rts = Older(@, d)]

InitDevice ==
    /\ InitWith({960}, FALSE, {FixtureBottles})
    /\ heap = NoHeap
    /\ dev = [NoDev EXCEPT !.on = TRUE]
    /\ codec = NoCodec
    /\ app = NoApp

NextDevice ==
    \/ DevWrite
    \/ DevSetRTS
    \/ DevWait

SpecDevice == InitDevice /\ [][NextDevice]_vars

\* port.read() by the client, the timeout 1 s: dev.got is <<>> if it returned
\* '', and else the character with its time stamp as it was when read returned
DevRead == \E r \in {ReadMany(port.read_buf, 1, 1, 0, port.timeout, POLL)} :
    /\ DevCall("read")
    /\ port.opened
    /\ port' = Elapse([port EXCEPT !.read_buf = Drop(@, r.count)], r.elapsed)
    /\ dev' = [dev EXCEPT !.calls = @ + 1, !.last = "read",
                          !.got = IF r.count = 0 THEN <<>>
                                  ELSE << port.read_buf[1][1], port.read_buf[1][2] - r.elapsed >>,
                          !.rts = Older(@, r.elapsed)]

\* the client of SpecDevice that also reads
SpecQueue == InitDevice /\ [][NextDevice \/ DevRead]_vars

(***************************************************************************)
(* A caller encoding a Bottle of its own and decoding the text             *)
(***************************************************************************)
\* the values the caller gives to Bottle(...): ids, modes, dilutions and
\* intervals in minutes (1452 is a day and 12 minutes); the run starts on
\* 2011-02-22 and lasts 1, 2, 3, 14 or 28 days, the lengths of the table of
\* Bottle.__str__
CodecIds == {1, 999}
CodecModes == {"pressure", "bod"}
CodecDilutions == {0, 1}
CodecIntervals == {12, 112, 308, 1452}
CodecStart == Datetime(2011, 2, 22, 16, 54, 55)
CodecFinishes ==
    {Datetime(2011, 2, 23, 16, 54, 55), Datetime(2011, 2, 24, 16, 54, 55),
     Datetime(2011, 2, 25, 16, 54, 55), Datetime(2011, 3, 8, 16, 54, 55),
     Datetime(2011, 3, 22, 16, 54, 55)}
CodecHeads ==
    {<<>>,
     << [serial |-> <<54, 48, 49, 48, 56>>, readings |-> <<>>] >>,
     << [serial |-> <<54, 48, 49, 52, 53>>, readings |-> <<>>],
        [serial |-> <<54, 48, 49, 52, 51>>, readings |-> <<>>] >>}

\* Bottle('110222-06', id, start, finish, timedelta(minutes=interval), 360, mode,
\* 510, 432, dilution) with heads appended
CodecBottles ==
    {[serial |-> <<49, 49, 48, 50, 50, 50, 45, 48, 54>>, id |-> id, start |-> CodecStart,
      finish |-> finish, interval |-> interval, measurements |-> 360, mode |-> mode,
      bottle_volume |-> 5100, sample_volume |-> 4320, dilution |-> dilution,
      heads |-> heads] :
        id \in CodecIds, finish \in CodecFinishes, interval \in CodecIntervals,
        mode \in CodecModes, dilution \in CodecDilutions, heads \in CodecHeads}

CodecStep ==
    UNCHANGED <<port, logger, seen_prompt, readings, pc, op, check_response, response,
                cts_wait, outcome, reply, rx_text, rx_exc, sent, cts_seen, gsns_sent, ops,
                noise, tampered, heap, dev, app>>

\* text = str(bottle)
Encode ==
    /\ codec.stage = "made"
    /\ codec' = [codec EXCEPT !.stage = "encoded", !.text = BottleStr(codec.bottle)]
    /\ CodecStep

\* decoded = Bottle.from_string(text)
Decode ==
    /\ codec.stage = "encoded"
    /\ codec' = [codec EXCEPT !.stage = "decoded", !.decoded = BottleFromString(codec.text)]
    /\ CodecStep

\* the readings the caller gives to BottleHead(bottle, '60108', readings): none,
\* one, and the numbers around one and two full lines of ten
CodecReadings == {[i \in 1..n |-> (i * 137) % 1100] : n \in {0, 1, 9, 10, 11, 20, 21}}

\* the blocks given to BottleReadings.from_string: the text of the readings as
\* it is, with one more reading declared than it holds, and with one more
\* value line than it declares
CodecBlocks(text) ==
    LET declared(lines, f) ==
            JoinLines(<<Join([f EXCEPT ![7] = Dec(PyInt(@) + 1)], <<COMMA>>)>> \o Tail(lines))
        more(lines) == declared(lines, Split(lines[1], COMMA))
        of(parts) == more(Take(parts, Len(parts) - 1))
    IN  {text, of(Split(text, CR)), text \o <<COMMA, 53, CR>>}

\* text = str(head.readings)
EncodeReadings ==
    /\ codec.stage = "head"
    /\ codec' = [codec EXCEPT !.stage = "block",
                              !.text = ReadingsStr(codec.bottle, codec.bottle.heads[1])]
    /\ CodecStep

\* decoded = BottleReadings.from_string(head, data), head a head with the serial
\* head_serial on a bottle with the serial bottle_serial
DecodeReadings ==
    /\ codec.stage = "block"
    /\ \E data \in CodecBlocks(codec.text),
          bottle_serial \in {FixtureBottles[1].serial, FixtureBottles[2].serial},
          head_serial \in {FixtureBottles[1].heads[1].serial,
                           FixtureBottles[3].heads[1].serial} :
            codec' = [codec EXCEPT
                        !.stage = "read",
                        !.decoded = [data |-> data, bottle_serial |-> bottle_serial,
                                     head_serial |-> head_serial]
                                    @@ ReadingsFromString(data, bottle_serial, head_serial)]
    /\ CodecStep

\* the arguments the caller tries Bottle(...) with: serials, ids, modes and
\* volumes (in tenths) that the constructor should take or refuse
CodecArgs ==
    {[FixtureBottles[1] EXCEPT !.heads = <<>>, !.serial = serial, !.id = id, !.mode = mode,
                               !.bottle_volume = bottle_volume,
                               !.sample_volume = sample_volume] :
        serial \in {
         <<49, 50, 49, 49, 49, 57, 45, 48, 51>>,                       \* '121119-03'
         <<50, 48, 49, 50, 45, 57, 57, 45, 57, 57, 45, 48, 49>>,       \* '2012-99-99-01'
         <<49, 49, 50, 50, 50, 45, 48, 54>>,                           \* '11222-06'
         <<49, 49, 48, 50, 50, 50, 45, 54>>,                           \* '110222-6'
         <<49, 49, 48, 50, 51, 48, 45, 48, 49>>,                       \* '110230-01'
         <<49, 49, 48, 50, 50, 50, 45, 48, 48>>,                       \* '110222-00'
         <<49, 49, 48, 50, 50, 50, 45, 49, 48, 48>>,                   \* '110222-100'
         <<49, 49, 48, 50, 50, 50>>,                                   \* '110222'
         <<49, 50, 48, 50, 50, 57, 45, 57, 57>>                        \* '120229-99'
        },
        id \in {0, 1, 999, 1000},
        mode \in {"pressure", "bod", "other"},
        bottle_volume \in {0, 5100},
        sample_volume \in {0, 4320}}

\* bottle = Bottle(serial, id, start, finish, interval, measurements, mode,
\* bottle_volume, sample_volume, dilution)
Construct ==
    /\ codec.stage = "args"
    /\ codec' = IF BottleInitOK(codec.bottle.serial, codec.bottle.id, codec.bottle.mode)
                THEN [codec EXCEPT !.stage = "made"]
                ELSE [codec EXCEPT !.stage = "refused", !.decoded = [exc |-> "ValueError"]]
    /\ CodecStep

InitCodec ==
    /\ InitWith({960}, FALSE, {FixtureBottles})
    /\ heap = NoHeap
    /\ dev = NoDev
    /\ app = NoApp
    /\ \/ \E b \in CodecBottles \cup CodecArgs :
             codec = [NoCodec EXCEPT !.stage = "args", !.bottle = b]
       \/ \E r \in CodecReadings :
             codec = [NoCodec EXCEPT
                        !.stage = "head",
                        !.bottle = [FixtureBottles[1] EXCEPT !.heads[1].readings = <<r>>]]

NextCodec ==
    \/ Construct
    \/ Encode
    \/ Decode
    \/ EncodeReadings
    \/ DecodeReadings

SpecCodec == InitCodec /\ [][NextCodec]_vars

(***************************************************************************)
(* The emulator application, oxitopemu.py: main's thread, the worker it    *)
(* makes and the two signal handlers.  app.main is the statement main is   *)
(* about to run; a handler runs in main's thread between two statements,   *)
(* and what it raises is raised where main stands.                         *)
(***************************************************************************)
MaxSignals == 2
MaxPolls == 3

Signals == {"SIGTERM", "SIGINT"}

\* signal.signal() returns the handler it replaces: SIG_DFL, which is 0, for
\* SIGTERM, and default_int_handler for SIGINT.
Previous(sig) == IF sig = "SIGTERM" THEN "SIG_DFL" ELSE "default_int_handler"

\* the statements of main at which a handler is in place
Installed(sig) ==
    IF sig = "SIGTERM"
    THEN app.main \in {"sigint", "construct", "assign", "loop", "waiting", "exiting"}
    ELSE app.main \in {"construct", "assign", "loop", "waiting", "exiting"}

\* self.dummy_logger has been assigned
HasLogger == app.main \in {"loop", "waiting", "join", "exiting", "done"}

\* the try of main covers the loop of is_alive() and join(0.1) only
InTry == app.main = "loop"

AppStep ==
    UNCHANGED <<port, logger, seen_prompt, readings, pc, op, check_response, response, cts_wait,
                outcome, reply, rx_text, rx_exc, sent, cts_seen, gsns_sent, ops, noise, tampered,
                heap, dev, codec>>

\* self.handle_sigterm = signal.signal(signal.SIGTERM, self.terminate)
InstallTerminate ==
    /\ app.main = "sigterm"
    /\ app' = [app EXCEPT !.main = "sigint"]
    /\ AppStep

\* self.handle_sigint = signal.signal(signal.SIGINT, self.interrupt)
InstallInterrupt ==
    /\ app.main = "sigint"
    /\ app' = [app EXCEPT !.main = "construct"]
    /\ AppStep

\* DummyLogger(port): the worker is made and, main having no start(), it runs
\* when the constructor returns.
WorkerStart ==
    /\ app.main = "construct"
    /\ app' = [app EXCEPT !.main = "assign", !.worker = "running"]
    /\ AppStep

\* self.dummy_logger = <the worker>, and main enters the try
AssignLogger ==
    /\ app.main = "assign"
    /\ app' = [app EXCEPT !.main = "loop"]
    /\ AppStep

\* while self.dummy_logger.is_alive(): self.dummy_logger.join(0.1)
JoinLoop ==
    /\ app.main = "loop"
    /\ app' = IF app.worker = "running" THEN app ELSE [app EXCEPT !.main = "waiting"]
    /\ AppStep

\* logging.info('Waiting for emulator loop to finish')
Waiting ==
    /\ app.main = "waiting"
    /\ app' = [app EXCEPT !.main = "join"]
    /\ AppStep

\* self.dummy_logger.join(): returns when the worker has stopped, and no
\* handler runs while main is blocked in it.
FinalJoin ==
    /\ app.main = "join"
    /\ app.worker = "stopped"
    /\ app' = [app EXCEPT !.main = "exiting"]
    /\ AppStep

\* logging.info('Exiting'), and main returns
Exit ==
    /\ app.main = "exiting"
    /\ app' = [app EXCEPT !.main = "done"]
    /\ AppStep

\* terminate(signum, frame) and interrupt(signum, frame): the flag is set on
\* self.dummy_logger, an AttributeError if main has not assigned it yet; then
\* the handler that was replaced is called if it is true, and for SIGINT that
\* one raises KeyboardInterrupt, which main catches inside its try only.
Handle(sig) ==
    IF ~HasLogger
    THEN [app EXCEPT !.main = "raised", !.exc = "AttributeError", !.signals = Append(@, sig)]
    ELSE IF Previous(sig) = "SIG_DFL"
    THEN [app EXCEPT !.terminated = TRUE, !.signals = Append(@, sig)]
    ELSE IF InTry
    THEN [app EXCEPT !.terminated = TRUE, !.signals = Append(@, sig), !.main = "waiting"]
    ELSE [app EXCEPT !.terminated = TRUE, !.signals = Append(@, sig),
                     !.main = "raised", !.exc = "KeyboardInterrupt"]

\* a signal reaches the process
Signal ==
    /\ Len(app.signals) < MaxSignals
    /\ \E sig \in Signals :
        /\ Installed(sig)
        /\ app' = Handle(sig)
    /\ AppStep

\* one iteration of the worker's loop: it looks at its flag once, and stops
\* if the flag is set.
WorkerPoll ==
    /\ app.worker = "running"
    /\ \/ /\ app.terminated
          /\ app' = [app EXCEPT !.worker = "stopped"]
       \/ /\ ~app.terminated
          /\ app.polls < MaxPolls
          /\ app' = [app EXCEPT !.polls = @ + 1]
    /\ AppStep

\* main has opened the serial port and is about to install its handlers
InitApp ==
    /\ InitWith({960}, FALSE, {FixtureBottles})
    /\ heap = NoHeap
    /\ dev = NoDev
    /\ codec = NoCodec
    /\ app = [NoApp EXCEPT !.main = "sigterm"]

NextApp ==
    \/ InstallTerminate
    \/ InstallInterrupt
    \/ WorkerStart
    \/ AssignLogger
    \/ JoinLoop
    \/ Waiting
    \/ FinalJoin
    \/ Exit
    \/ Signal
    \/ WorkerPoll

SpecApp == InitApp /\ [][NextApp]_vars

(***************************************************************************)
(* A session in which the engine is closed and used again: _CLOC, a wait,  *)
(* then readings, the listing and the objects it made, the timeout 1 s.    *)
(***************************************************************************)
NextSession ==
    \/ Connect
    \/ Close
    \/ Idle
    \/ Readings
    \/ Bottles
    \/ BottleRefresh
    \/ HeadReadings
    \/ TxPoll
    \/ TxDrain
    \/ TxProbe
    \/ TxProbeRx
    \/ TxSend
    \/ CmdRx

SpecSession == InitObjects /\ [][NextSession]_vars

NextObjects ==
    \/ Connect
    \/ TxPoll
    \/ TxDrain
    \/ TxSend
    \/ CmdRx
    \/ Bottles
    \/ LoggerRefresh
    \/ BottleRefresh
    \/ HeadReadings
    \/ HeadRefresh

SpecObjects == InitObjects /\ [][NextObjects]_vars

(***************************************************************************)
(* Properties                                                              *)
(***************************************************************************)
\* the running operation has ended: it returned (outcome "ok") or raised
Ended(name) == pc = "idle" /\ op.name = name /\ outcome # ""

\* the last write of the operation was the whole frame of its command
FrameSent ==
    /\ sent # <<>>
    /\ sent[Len(sent)] = [data |-> Frame(op.command, op.args),
                          written |-> Len(Frame(op.command, op.args))]

\* the last _rx read up to a prompt
RxReturned == EndsWith(rx_text, PROMPT)

\* C1: DataLogger(port) writes MAID and returns an engine only if the reply,
\* less its trailing CR, is OC110; any other reply to MAID raises
\* UnexpectedReply and leaves no engine.
C1_ConnectChecksId ==
    Ended("connect") =>
        /\ logger = "ok" <=> outcome = "ok"
        /\ outcome = "ok" => FrameSent /\ op.command = MAID /\ RxReturned
        /\ (FrameSent /\ RxReturned) =>
              IF reply = OC110 \o <<CR>>
              THEN outcome = "ok"
              ELSE outcome = "UnexpectedReply" /\ logger = "none"

\* a reply to MAID that is not OC110 was turned down
C1_Witness ==
    /\ Ended("connect") /\ FrameSent /\ RxReturned
    /\ reply # OC110 \o <<CR>>
    /\ outcome = "UnexpectedReply"

\* the operation has ended after a checksummed _rx that read up to a prompt
CheckedRx == pc = "idle" /\ outcome # "" /\ op.checksum /\ FrameSent /\ RxReturned

\* the last line before the prompt is a comma and a decimal that is the sum of
\* the characters of the lines before it, their terminators included
GoodChecksum(lines) ==
    /\ lines # <<>>
    /\ StartsWith(lines[Len(lines)], <<COMMA>>)
    /\ IsInt(Drop(lines[Len(lines)], 1))
    /\ PyInt(Drop(lines[Len(lines)], 1)) = SumOrd(JoinLines(Take(lines, Len(lines) - 1)))

\* C2: a checksummed _rx returns the payload if and only if the last line
\* before the prompt is a comma followed by the decimal sum of the characters
\* of the lines before it; a wrong sum raises ChecksumMismatch, a last line
\* without the comma raises UnexpectedReply, and neither returns a payload.
C2_ChecksumDecides ==
    CheckedRx =>
        /\ rx_exc = "" <=> GoodChecksum(ResponseLines(rx_text))
        /\ rx_exc = "" =>
              reply = JoinLines(Take(ResponseLines(rx_text), Len(ResponseLines(rx_text)) - 1))
        /\ rx_exc # "" => reply = <<>> /\ outcome = rx_exc
        /\ ( /\ ResponseLines(rx_text) # <<>>
             /\ ~StartsWith(ResponseLines(rx_text)[Len(ResponseLines(rx_text))], <<COMMA>>) )
              => rx_exc = "UnexpectedReply"
        /\ ( /\ ResponseLines(rx_text) # <<>>
             /\ StartsWith(ResponseLines(rx_text)[Len(ResponseLines(rx_text))], <<COMMA>>)
             /\ IsInt(Drop(ResponseLines(rx_text)[Len(ResponseLines(rx_text))], 1))
             /\ ~GoodChecksum(ResponseLines(rx_text)) )
              => rx_exc = "ChecksumMismatch"

\* a response whose checksum line held a wrong sum was turned down
C2_Witness ==
    /\ CheckedRx
    /\ rx_exc = "ChecksumMismatch"
    /\ reply = <<>>
    /\ IsInt(Drop(ResponseLines(rx_text)[Len(ResponseLines(rx_text))], 1))

\* a byte of the payload of a checksummed response was changed in flight, and
\* the _rx of the command has ended
PayloadTampered == pc = "idle" /\ tampered.payload > 0 /\ tampered.at <= tampered.payload

\* the change left the lines and the prompt of the response where they were:
\* it did not put a '>' in front of a terminator, and it did not take away the
\* terminator in front of the checksum line
FramingKept ==
    /\ ~(tampered.now = GT /\ tampered.next = CR)
    /\ tampered.at # tampered.payload

FirstConnect == ops = 1 /\ Ended("connect")

\* C4 as stated: on a freshly opened emulator DataLogger(port) raises
\* HandshakeFailed whenever the timeout (one the constructor takes) is shorter
\* than the wake delay, and succeeds whenever it is longer.
C4_AsStated ==
    (FirstConnect /\ port.timeout # 0) =>
        /\ port.timeout < WAKE => outcome = "HandshakeFailed"
        /\ port.timeout > WAKE => outcome = "ok"

\* C4, amended: on a freshly opened emulator DataLogger(port) raises
\* HandshakeFailed whenever the timeout is not zero and shorter than the wake
\* delay, and succeeds whenever the timeout is at least the wake delay, one
\* turn of the CTS loop and the longest a sleep overruns; a timeout of zero
\* raises ValueError.
C4_Connects ==
    FirstConnect =>
        /\ port.timeout = 0 => outcome = "ValueError"
        /\ (port.timeout # 0 /\ port.timeout < WAKE) => outcome = "HandshakeFailed"
        /\ port.timeout >= WAKE + POLL + MaxJitter => outcome = "ok"

\* the shortest timeout that always connects has connected
C4_Witness ==
    FirstConnect /\ port.timeout = WAKE + POLL + MaxJitter /\ outcome = "ok" /\ logger = "ok"

\* C5: _tx writes (the bare terminator or the frame) only after getCTS()
\* returned True in that same _tx; while it waits for CTS it has written
\* nothing, and when the wait ends in HandshakeFailed nothing was written.
C5_WriteAfterCTS ==
    /\ sent # <<>> => cts_seen
    /\ pc \in {"drain", "probe", "probe_rx", "send", "rx"} => cts_seen
    /\ pc = "cts_wait" => sent = <<>> /\ ~cts_seen /\ ~op.awake
    /\ (pc = "idle" /\ outcome = "HandshakeFailed") => sent = <<>> /\ ~cts_seen /\ ~op.awake

\* a _tx that waited for CTS until the deadline raised, having written nothing
C5_Witness ==
    /\ pc = "idle" /\ outcome = "HandshakeFailed" /\ sent = <<>> /\ cts_wait < 0
    /\ op.command # <<>>

\* the frame of the command is among the writes of the operation
FrameWritten == \E i \in 1..Len(sent) : sent[i].data = Frame(op.command, op.args)

\* the text ends in a LOGON line or an INVALID COMMAND line
EndsInSyncLine(text) ==
    \/ EndsWith(text, LOGON \o <<CR>>)
    \/ EndsWith(text, INVALID_COMMAND \o <<CR>>)

\* C6: when _tx had to synchronise, the frame is written only if what it read
\* ends in LOGON or INVALID COMMAND; if it does not, UnexpectedReply is raised
\* and the frame is not written.  DataLogger(port) on an emulator that is awake
\* with nothing queued writes one bare terminator, reads INVALID COMMAND, and
\* connects.
C6_SyncGuardsFrame ==
    /\ (FrameWritten /\ check_response) => EndsInSyncLine(response)
    /\ ( /\ pc = "idle" /\ outcome # "" /\ check_response /\ rx_exc = ""
         /\ ~EndsInSyncLine(response) )
          => outcome = "UnexpectedReply" /\ ~FrameWritten
    /\ (Ended("connect") /\ op.awake /\ op.pending = 0) =>
          /\ outcome = "ok"
          /\ Len(sent) = 2 /\ sent[1] = [data |-> <<CR>>, written |-> 1]
          /\ response = INVALID_COMMAND \o <<CR>>

\* what a _tx read while synchronising ended in neither line, and the frame
\* was not written
C6_Witness ==
    /\ pc = "idle" /\ check_response /\ rx_exc = "" /\ ~EndsInSyncLine(response)
    /\ outcome = "UnexpectedReply" /\ ~FrameWritten /\ sent # <<>>

\* C7 as stated: _CLOC() on a connected engine returns, and then RTS is low
\* and _seen_prompt is False.
C7_CLOCCompletes ==
    (Ended("CLOC") /\ FrameSent) =>
        outcome = "ok" /\ ~seen_prompt /\ port.cts_high = <<>>

\* C8 as stated: when a GMSK frame is written, a GSNS frame for the same bottle
\* was written since the last GPRB frame.
C8_GSNSBeforeGMSK ==
    (op.command = GMSK /\ FrameSent) => op.args[1] \in gsns_sent

\* C8, amended: BottleHead.readings writes the GMSK frame for its bottle and
\* head (after a bare terminator, if it has to synchronise) and no other frame;
\* a GSNS frame is written by _GSNS alone.
C8_ReadingsWriteGMSK ==
    /\ op.name = "readings" =>
          \A i \in 1..Len(sent) :
              \/ sent[i].data = <<CR>>
              \/ sent[i].data = Frame(GMSK, << FixtureBottles[op.head[1]].serial,
                                              FixtureBottles[op.head[1]].heads[op.head[2]].serial >>)
    /\ \A i \in 1..Len(sent) : StartsWith(sent[i].data, GSNS) => op.name = "GSNS"

\* readings were fetched with GMSK though no GSNS frame had been written for
\* the bottle
C8_Witness ==
    /\ Ended("readings") /\ op.command = GMSK /\ FrameSent /\ outcome = "ok"
    /\ op.args[1] \notin gsns_sent
    /\ readings[op.head] # <<>>

\* the last write of the operation was the frame, and the port took less of it
ShortWrite ==
    /\ sent # <<>>
    /\ sent[Len(sent)].data = Frame(op.command, op.args)
    /\ sent[Len(sent)].written # Len(sent[Len(sent)].data)

\* C9: when write() returns less than the length of the frame, _tx raises
\* PartialSend: the frame is written that once, and the operation ends there,
\* without a _rx for the command.
C9_PartialSend ==
    ShortWrite =>
        /\ pc = "idle" /\ outcome = "PartialSend"
        /\ Cardinality({i \in 1..Len(sent) : sent[i].data = Frame(op.command, op.args)}) = 1
        /\ reply = <<>>
        /\ rx_exc = ""

\* a frame of which the port took some characters, not all
C9_Witness ==
    /\ ShortWrite /\ sent[Len(sent)].written > 0
    /\ pc = "idle" /\ outcome = "PartialSend"

\* the text holds the prompt marker
HasPrompt(text) == \E i \in 1..(Len(text) - 1) : text[i] = GT /\ text[i + 1] = CR

\* the step is a _rx: it leaves one of the places where _rx is called
RxStep == pc \in {"drain", "probe_rx", "rx"} /\ pc' # pc

\* C10: a _rx that gets an empty read before it has read the prompt marker
\* raises ReceiveError and leaves _seen_prompt as it was; _seen_prompt becomes
\* True only in a _rx whose text holds the prompt marker.
C10_PromptFlag ==
    [][ /\ (RxStep /\ ~HasPrompt(rx_text')) =>
              /\ rx_exc' = "ReceiveError" /\ outcome' = "ReceiveError"
              /\ seen_prompt' = seen_prompt
        /\ (RxStep /\ rx_exc' = "ReceiveError") =>
              /\ ~HasPrompt(rx_text')
              /\ seen_prompt' = seen_prompt
        /\ (seen_prompt' /\ ~seen_prompt) => (RxStep /\ HasPrompt(rx_text'))
      ]_vars

\* a _rx of an engine that had seen a prompt raised ReceiveError, and the flag
\* is still set
C10_Witness ==
    /\ pc = "idle" /\ outcome = "ReceiveError" /\ rx_exc = "ReceiveError"
    /\ ~HasPrompt(rx_text)
    /\ seen_prompt

\* the serials of the heads of a bottle, in order
HeadSerials(b) == [h \in 1..Len(b.heads) |-> b.heads[h].serial]

\* the Bottles of the list DataLogger.bottles returned
Listing == [i \in 1..Len(heap.listing[1]) |-> heap.bottles[heap.listing[1][i]]]

\* C11: whatever the catalog of the emulator, DataLogger.bottles returns one
\* Bottle for every bottle of the catalog, in the order of the catalog, each with
\* the serial and the head serials, in order, of its catalog bottle (a bottle
\* with no head too); for the catalog DummySerial.__init__ builds it returns 3
\* Bottles with 1, 1 and 2 heads.
C11_ListingMatchesCatalog ==
    Ended("bottles") =>
        /\ outcome = "ok"
        /\ heap.listing # <<>>
        /\ Len(Listing) = Len(port.bottles)
        /\ \A i \in 1..Len(Listing) :
              /\ Listing[i].serial = port.bottles[i].serial
              /\ HeadSerials(Listing[i]) = HeadSerials(port.bottles[i])
        /\ port.bottles = FixtureBottles =>
              [i \in 1..Len(Listing) |-> Len(Listing[i].heads)] = <<1, 1, 2>>

\* a catalog whose first bottle has no head was listed: two Bottles, the first
\* with no head
C11_Witness ==
    /\ Ended("bottles") /\ FrameSent /\ outcome = "ok"
    /\ port.bottles # <<>> /\ port.bottles[1].heads = <<>>
    /\ Len(Listing) = 2 /\ Listing[1].heads = <<>> /\ Len(Listing[2].heads) = 2

\* a call starts in this step: name, and whether it is over at once
CallStarts(name) == pc = "idle" /\ ops' = ops + 1 /\ op'.name = name

\* the frame of command is written in this step
FrameGoes(command) ==
    /\ Len(sent') = Len(sent) + 1
    /\ StartsWith(sent'[Len(sent')].data, command)

\* C12: DataLogger.bottles writes a GAPB frame exactly when self._bottles is
\* None, which it is before the first listing and after every
\* DataLogger.refresh until the next listing has returned; a listing that finds
\* the list cached returns it and leaves the transport alone, and so does
\* DataLogger.refresh.
C12_ListingCached ==
    [][ /\ (CallStarts("bottles") /\ heap.listing # <<>>) =>
              /\ pc' = "idle" /\ outcome' = "ok"
              /\ port' = port /\ sent' = <<>> /\ heap' = heap
        /\ (CallStarts("bottles") /\ heap.listing = <<>>) =>
              /\ pc' # "idle" /\ op'.command = GAPB
        /\ FrameGoes(GAPB) =>
              /\ op.name = "bottles" /\ heap.listing = <<>>
              /\ sent = <<>> /\ sent'[1].data = Frame(GAPB, <<>>)
        /\ (op.name = "bottles" /\ pc = "rx" /\ pc' = "idle" /\ outcome' = "ok") =>
              heap'.listing # <<>>
        /\ CallStarts("DataLogger.refresh") =>
              /\ pc' = "idle" /\ outcome' = "ok"
              /\ port' = port /\ sent' = <<>> /\ heap'.listing = <<>>
        /\ (heap.listing # <<>> /\ heap'.listing = <<>>) => CallStarts("DataLogger.refresh")
        /\ (heap.listing = <<>> /\ heap'.listing # <<>>) => op.name = "bottles" /\ pc = "rx"
      ]_vars

\* a second listing was asked of the transport, after a refresh: the list holds
\* Bottles made after those of the first listing
C12_Witness ==
    /\ Ended("bottles") /\ FrameSent /\ outcome = "ok"
    /\ port.bottles = FixtureBottles
    /\ heap.listing[1][1] > 1 + Len(port.bottles)

\* the head is on a Bottle that has a logger
OnBoundBottle(hp, k) ==
    /\ HeadAt(hp, k).bottle # 0
    /\ hp.bottles[HeadAt(hp, k).bottle].logger

\* C13: BottleHead.readings of a head of a Bottle of the engine writes a GMSK
\* frame, for the serials of its bottle and of the head, exactly when
\* self._readings is None, which it is until the first fetch has returned and
\* after every BottleHead.refresh until the next; readings that were fetched and
\* are empty are cached as any others and are not fetched again; and
\* BottleHead.refresh leaves the transport alone.
C13_ReadingsCached ==
    [][ /\ (CallStarts("BottleHead.readings") /\ HeadAt(heap, op'.head).readings # <<>>) =>
              /\ pc' = "idle" /\ outcome' = "ok"
              /\ port' = port /\ sent' = <<>> /\ heap' = heap
        /\ ( /\ CallStarts("BottleHead.readings")
             /\ HeadAt(heap, op'.head).readings = <<>>
             /\ OnBoundBottle(heap, op'.head) ) =>
              /\ pc' # "idle" /\ op'.command = GMSK
        /\ FrameGoes(GMSK) =>
              /\ op.name = "BottleHead.readings"
              /\ HeadAt(heap, op.head).readings = <<>>
              /\ sent = <<>>
              /\ sent'[1].data = Frame(GMSK, << heap.bottles[HeadAt(heap, op.head).bottle].serial,
                                                HeadAt(heap, op.head).serial >>)
        /\ (op.name = "BottleHead.readings" /\ pc = "rx" /\ pc' = "idle" /\ outcome' = "ok") =>
              HeadAt(heap', op.head).readings # <<>>
        /\ CallStarts("BottleHead.refresh") =>
              /\ pc' = "idle" /\ port' = port /\ sent' = <<>>
              /\ outcome' = "ok" => HeadAt(heap', op'.head).readings = <<>>
        /\ \A k \in HeapHeads(heap) \cap HeapHeads(heap') :
              (HeadAt(heap, k).readings # <<>> /\ HeadAt(heap', k).readings = <<>>) =>
                  \* refresh of the head, or the head is a new one that
                  \* Bottle.refresh has put in its place
                  \/ CallStarts("BottleHead.refresh") /\ op'.head = k
                  \/ op.name = "Bottle.refresh" /\ op.head[1] = k[1]
      ]_vars

\* readings that were fetched and are empty were returned from the cache
C13_Witness ==
    /\ Ended("BottleHead.readings") /\ outcome = "ok"
    /\ op.command = <<>> /\ sent = <<>>
    /\ OnBoundBottle(heap, op.head)
    /\ HeadAt(heap, op.head).readings = << <<>> >>

\* C14: every head in the list of heads of a Bottle refers to that Bottle, never
\* to the Bottle that Bottle.refresh read and dropped, and Bottle.refresh leaves
\* the logger of the Bottle as it was: the Bottles of a listing keep the engine.
C14_HeadsReferToBottle ==
    /\ \A b \in 1..Len(heap.bottles) :
          heap.bottles[b].live =>
              /\ \A h \in 1..Len(heap.bottles[b].heads) : heap.bottles[b].heads[h].bottle = b
              /\ heap.bottles[b].logger <=> b > 1
    /\ heap.listing # <<>> =>
          \A i \in 1..Len(Listing) : Listing[i].live /\ Listing[i].logger

\* the readings of a head were fetched after Bottle.refresh of its bottle had
\* returned
C14_Witness ==
    /\ Ended("BottleHead.readings") /\ FrameSent /\ outcome = "ok"
    /\ op.head[1] > 1
    /\ \E j \in (op.head[1] + 1)..Len(heap.bottles) :
          /\ ~heap.bottles[j].live
          /\ heap.bottles[j].serial = heap.bottles[op.head[1]].serial
    /\ HeadAt(heap, op.head).bottle = op.head[1]
    /\ HeadAt(heap, op.head).readings # <<>>

\* C15: Bottle.refresh of a Bottle with no logger, and BottleHead.refresh of a
\* head with no bottle or on a Bottle with no logger, raise RuntimeError and
\* leave the bottle, its heads, the readings of the head and the transport as
\* they were.
C15_RefreshUnbound ==
    [][ /\ (CallStarts("Bottle.refresh") /\ ~heap.bottles[op'.head[1]].logger) =>
              /\ pc' = "idle" /\ outcome' = "RuntimeError"
              /\ heap' = heap /\ port' = port /\ sent' = <<>>
        /\ (CallStarts("BottleHead.refresh") /\ ~OnBoundBottle(heap, op'.head)) =>
              /\ pc' = "idle" /\ outcome' = "RuntimeError"
              /\ heap' = heap /\ port' = port /\ sent' = <<>>
        /\ ((CallStarts("Bottle.refresh") \/ CallStarts("BottleHead.refresh"))
                /\ outcome' = "RuntimeError") => heap' = heap
      ]_vars

\* BottleHead.refresh of a head with no bottle raised, the readings it holds
\* still there
C15_Witness ==
    /\ Ended("BottleHead.refresh") /\ outcome = "RuntimeError"
    /\ op.head[1] = 0
    /\ HeadAt(heap, op.head).bottle = 0
    /\ HeadAt(heap, op.head).readings = << <<970>> >>

\* C16: every dispatch of the emulator, whatever the command, the number of its
\* arguments and the serials, queues a prompt marker as its last bytes.
C16_DispatchEndsWithPrompt ==
    \A e \in 1..Len(dev.log) : EndsWith(dev.log[e].queued, PROMPT)

\* the bottle of the catalog a request names, with or without the dash
BottleNamed(serial) ==
    {i \in 1..Len(port.bottles) :
        port.bottles[i].serial = IF HasChar(serial, DASH) THEN serial ELSE SerialDashed(serial)}

\* the error line an invalid request is due, <<>> for a valid one
ErrorLine(command, args) ==
    LET bottle(arity) ==
            IF Len(args) # arity THEN INVALID_ARGS
            ELSE IF BottleNamed(args[1]) = {} THEN INVALID_BOTTLE
            ELSE IF arity = 2 /\ \A i \in BottleNamed(args[1]) :
                                    \A h \in 1..Len(port.bottles[i].heads) :
                                        port.bottles[i].heads[h].serial # args[2]
                 THEN INVALID_HEAD
            ELSE <<>>
    IN  IF command \in {MAID, CLOC, GAPB} THEN <<>>
        ELSE IF command \in {GPRB, GSNS} THEN bottle(1)
        ELSE IF StartsWith(command, GMSK) THEN bottle(2)
        ELSE INVALID_COMMAND

\* C17: the emulator answers every invalid request with the matching error line
\* and a prompt, with no payload and no checksum line, and raises nothing: the
\* write that carried the request returns.
C17_ErrorsAreResponses ==
    \A e \in 1..Len(dev.log) :
        LET line == ErrorLine(dev.log[e].command, dev.log[e].args)
        IN  line # <<>> =>
                /\ dev.log[e].exc = ""
                /\ dev.log[e].queued = line \o <<CR>> \o PROMPT

\* what a step queues for the client
QueuedByStep ==
    [i \in 1..(Len(port'.read_buf) - Len(port.read_buf)) |->
        port'.read_buf[Len(port.read_buf) + i][1]]

\* C18: every time the client asserts RTS (also while it is asserted already)
\* the emulator queues LOGON and a prompt, CTS is not asserted before the wake
\* delay has gone by since that assertion, and is asserted from then on, until
\* RTS is deasserted or CLOC is processed.
C18_RTSWakesDevice ==
    /\ [](dev.rts # <<>> => /\ dev.rts[1] < WAKE => ~GetCTS(port)
                            /\ dev.rts[1] > WAKE => GetCTS(port))
    /\ [][dev'.last = "setRTS(True)" => QueuedByStep = LOGON \o <<CR>> \o PROMPT]_vars

SameBottle(a, b) ==
    /\ a.serial = b.serial /\ a.id = b.id
    /\ a.start = b.start /\ a.finish = b.finish
    /\ a.interval = b.interval /\ a.measurements = b.measurements
    /\ a.mode = b.mode
    /\ a.bottle_volume = b.bottle_volume /\ a.sample_volume = b.sample_volume
    /\ a.dilution = b.dilution
    /\ Len(a.heads) = Len(b.heads)
    /\ \A h \in 1..Len(a.heads) : a.heads[h].serial = b.heads[h].serial

\* C20: decoding the encoded record of a valid Bottle returns a Bottle equal to
\* it field for field, whatever its id, mode, dilution, run length and interval.
C20_RoundTrip ==
    codec.stage = "decoded" =>
        /\ codec.decoded.exc = ""
        /\ SameBottle(codec.decoded.bottle, codec.bottle)

\* the readings given to the head whose readings are encoded
CodecItems == codec.bottle.heads[1].readings[1]

\* the values of a value line: the texts after each of its commas
LineValues(line) == Tail(Split(line, COMMA))

\* C21: the text of N readings is one header line and ceil(N/10) value lines,
\* each of at most 10 integers with a comma before each, all but the last of
\* exactly 10; decoding it for the same head gives back the same readings, as
\* many as there were.
C21_ReadingsRoundTrip ==
    /\ codec.stage \in {"block", "read"} =>
          LET parts == Split(codec.text, CR)
              lines == SubSeq(parts, 2, Len(parts) - 1)
              N == Len(CodecItems)
          IN  /\ parts[Len(parts)] = <<>>
              /\ Len(Split(parts[1], COMMA)) = 7
              /\ Len(lines) = (N + 9) \div 10
              /\ \A l \in 1..Len(lines) :
                    /\ lines[l][1] = COMMA
                    /\ \A v \in 1..Len(LineValues(lines[l])) : IsInt(LineValues(lines[l])[v])
                    /\ Len(LineValues(lines[l])) =
                          IF l < Len(lines) THEN 10 ELSE N - 10 * (Len(lines) - 1)
                    /\ Len(LineValues(lines[l])) \in 1..10
    /\ (/\ codec.stage = "read"
        /\ codec.decoded.data = codec.text
        /\ codec.decoded.bottle_serial = codec.bottle.serial
        /\ codec.decoded.head_serial = codec.bottle.heads[1].serial) =>
            /\ codec.decoded.exc = ""
            /\ codec.decoded.items = CodecItems
            /\ Len(codec.decoded.items) = Len(CodecItems)

\* 21 readings were written on three lines and read back
C21_Witness ==
    /\ codec.stage = "read"
    /\ Len(CodecItems) = 21
    /\ Len(Split(codec.text, CR)) = 5
    /\ codec.decoded.data = codec.text
    /\ codec.decoded.exc = ""
    /\ codec.decoded.items = CodecItems

\* the interval field of the text of the Bottle: the last field of its first line
IntervalWritten ==
    LET last(f) == f[Len(f)] IN last(Split(Split(codec.text, CR)[1], COMMA))

\* C22: an interval of 112 minutes is written as 308, an interval field of 308
\* is read as 112 minutes, and every interval other than 112 minutes is read
\* back from its text as it was.
C22_IntervalRoundTrip ==
    /\ (codec.stage \in {"encoded", "decoded"} /\ codec.bottle.interval = 112) =>
          IntervalWritten = Dec(308)
    /\ (codec.stage = "decoded" /\ IntervalWritten = Dec(308)) =>
          codec.decoded.bottle.interval = 112
    /\ (codec.stage = "decoded" /\ codec.bottle.interval # 112) =>
          codec.decoded.bottle.interval = codec.bottle.interval

\* the block read is the text of the readings as it was written (it declares as
\* many readings as it holds), for a head and a bottle with the serials of its
\* header
BlockAgrees ==
    /\ codec.decoded.data = codec.text
    /\ codec.decoded.head_serial = codec.bottle.heads[1].serial
    /\ codec.decoded.bottle_serial = codec.bottle.serial

\* C23: decoding a block of readings for a head fails with an assertion error,
\* and gives the caller no readings, when the head serial of the header is not
\* the serial of the head, or the bottle serial of the header is not the serial
\* of the bottle of the head, or the number of readings declared is not the
\* number of values in the block; it returns the readings when all three agree.
C23_ReadingsValidated ==
    codec.stage = "read" =>
        /\ codec.decoded.exc = "" <=> BlockAgrees
        /\ codec.decoded.exc = "" => codec.decoded.items = CodecItems
        /\ codec.decoded.exc # "" => /\ codec.decoded.exc = "AssertionError"
                                     /\ codec.decoded.items = <<>>

\* a block declaring one reading more than the ten it holds was refused, the
\* serials being those of the head and of its bottle
C23_Witness ==
    /\ codec.stage = "read"
    /\ Len(CodecItems) = 10
    /\ codec.decoded.data # codec.text
    /\ Len(codec.decoded.data) = Len(codec.text)
    /\ codec.decoded.head_serial = codec.bottle.heads[1].serial
    /\ codec.decoded.bottle_serial = codec.bottle.serial
    /\ codec.decoded.exc = "AssertionError"

\* s is two digits of a year, then a month and a day of the calendar, each
\* written with a number of digits from widths
CalendarDate(s, widths) ==
    \E m \in widths, d \in widths :
        /\ Len(s) = 2 + m + d
        /\ \A i \in 1..Len(s) : IsDigit(s[i])
        /\ PyInt(SubSeq(s, 3, 2 + m)) \in 1..12
        /\ PyInt(SubSeq(s, 3 + m, Len(s))) >= 1
        /\ PyInt(SubSeq(s, 3 + m, Len(s)))
              <= DaysInMonth(PivotYear(PyInt(SubSeq(s, 1, 2))), PyInt(SubSeq(s, 3, 2 + m)))

\* serial is a date, a dash, and a sequence number from 1 to 99
DatedSerial(serial, widths) ==
    LET of(parts) ==
            /\ Len(parts) = 2
            /\ CalendarDate(parts[1], widths)
            /\ IsInt(parts[2])
            /\ PyInt(parts[2]) \in 1..99
    IN  of(Split1(serial, DASH))

\* Bottle(...) was called and returned or raised
Constructed == codec.stage \in {"made", "refused"}

\* the cases the specification names
ConstructionExamples ==
    Constructed =>
        /\ codec.bottle.id \in {0, 1000} => codec.stage = "refused"
        /\ codec.bottle.serial = <<50, 48, 49, 50, 45, 57, 57, 45, 57, 57, 45, 48, 49>> => codec.stage = "refused"
        /\ (/\ codec.bottle.serial = <<49, 50, 49, 49, 49, 57, 45, 48, 51>>
            /\ codec.bottle.id \in {1, 999}
            /\ codec.bottle.mode \in {"pressure", "bod"}) => codec.stage = "made"

\* C24 as stated: Bottle construction succeeds exactly when the serial is a
\* calendar date YYMMDD, a dash and a sequence number from 1 to 99, and the id
\* is from 1 to 999.
C24_AsStated ==
    Constructed =>
        (codec.stage = "made" <=>
            /\ DatedSerial(codec.bottle.serial, {2})
            /\ codec.bottle.id \in 1..999)

\* C24: Bottle construction succeeds exactly when the serial is a date that
\* strptime takes for %y%m%d (two digits of a year, a month and a day of the
\* calendar of one or two digits each), a dash and a sequence number from 1 to
\* 99, the id is from 1 to 999 and the mode is pressure or bod; otherwise it
\* raises ValueError.  It fails for id 0, id 1000 and the serial
\* "2012-99-99-01", and succeeds for id 1, id 999 and the serial "121119-03".
C24_ConstructionAccepts ==
    /\ Constructed =>
          /\ codec.stage = "made" <=>
                /\ DatedSerial(codec.bottle.serial, {1, 2})
                /\ codec.bottle.id \in 1..999
                /\ codec.bottle.mode \in {"pressure", "bod"}
          /\ codec.stage = "refused" => codec.decoded.exc = "ValueError"
    /\ ConstructionExamples

\* the serial "2012-99-99-01" was refused, with an id and a mode that are taken
C24_Witness ==
    /\ codec.stage = "refused"
    /\ codec.bottle.serial = <<50, 48, 49, 50, 45, 57, 57, 45, 57, 57, 45, 48, 49>>
    /\ codec.bottle.id = 999
    /\ codec.bottle.mode = "pressure"

\* C25: every Bottle that the constructor or the decoder returns has a mode of
\* pressure or bod and a bottle volume and a sample volume above zero; the
\* constructor refuses any other mode and any volume of zero or less.
C25_BottleInvariants ==
    /\ codec.stage \in {"made", "encoded", "decoded"} =>
          /\ codec.bottle.mode \in {"pressure", "bod"}
          /\ codec.bottle.bottle_volume > 0
          /\ codec.bottle.sample_volume > 0
    /\ (codec.stage = "decoded" /\ codec.decoded.exc = "") =>
          /\ codec.decoded.bottle.mode \in {"pressure", "bod"}
          /\ codec.decoded.bottle.bottle_volume > 0
          /\ codec.decoded.bottle.sample_volume > 0

\* C26: DataLogger(port) on a port whose timeout is None or 0 raises ValueError
\* before it uses the port: nothing is written to it or read from it and RTS is
\* not touched, at the call and ever after.
C26_NoTimeoutRefused ==
    /\ [](port.timeout = 0 =>
            /\ logger = "none" /\ pc = "idle"
            /\ sent = <<>>
            /\ port.cts_high = <<>>
            /\ port.write_buf = <<>>
            /\ op.name # "" => (op.name = "connect" /\ outcome = "ValueError"))
    /\ [][port.timeout = 0 => Len(port'.read_buf) = Len(port.read_buf)]_vars

\* DataLogger(port) raised ValueError on a port with no timeout
C26_Witness ==
    /\ Ended("connect")
    /\ port.timeout = 0
    /\ outcome = "ValueError"
    /\ sent = <<>>

\* the payload of the emulator's reply to the command of the operation, its
\* arguments valid
Answer ==
    LET bottle == BottleBySerial(port.bottles, op.args[1])
        head == HeadBySerial(port.bottles[bottle], op.args[2])
    IN  CASE op.command = MAID -> OC110 \o <<CR>>
          [] op.command = GAPB -> BottlesStr(port.bottles)
          [] op.command = GPRB -> BottleStr(port.bottles[bottle])
          [] op.command = GMSK ->
                HeadReadingsStr(port.bottles[bottle], port.bottles[bottle].heads[head])
          [] OTHER -> <<>>

\* the operation has ended, the _rx of its command having returned a payload
PayloadReturned ==
    /\ pc = "idle" /\ outcome # ""
    /\ FrameSent /\ RxReturned /\ rx_exc = ""

\* C27: in any sequence of commands of the engine the payload that the _rx of
\* a command returns is the emulator's reply to that command, never bytes the
\* emulator queued for an earlier command or with an unsolicited LOGON.
C27_ReplyIsOwn ==
    (PayloadReturned /\ port.bottles = FixtureBottles) => reply = Answer

\* a call of DataLogger.bottles has ended by raising
ListingFailed == pc = "idle" /\ op.name = "bottles" /\ outcome \notin {"ok", ""}

\* C28: when a bottle listing fails, in the GAPB exchange or while a bottle
\* block of the response is decoded, the engine's cache of bottles stays
\* absent, so that the next access asks the device again and no list built
\* before the failure is returned
C28_FailedListingNotCached == ListingFailed => ~Cached(heap.listing)

\* a call of Bottle.refresh or of BottleHead.readings that asked the device
\* and raised
ObjectCallFailed(name) ==
    pc = "idle" /\ op.name = name /\ sent # <<>> /\ outcome \notin {"ok", ""}

\* C29: while Bottle.refresh or a fetch of readings runs, and when it fails,
\* nothing of the bottle, of its list of heads or of the head has changed;
\* after a failed fetch the head has no readings, and the next access to the
\* same head asks the device again
C29_FailureChangesNothing ==
    /\ [][(/\ op'.name \in {"Bottle.refresh", "BottleHead.readings"}
           /\ ~(pc' = "idle" /\ outcome' = "ok")) => heap' = heap]_vars
    /\ [](ObjectCallFailed("BottleHead.readings") => ~Cached(HeadAt(heap, op.head).readings))
    /\ [][(/\ ObjectCallFailed("BottleHead.readings")
           /\ ops' = ops + 1
           /\ op'.name = "BottleHead.readings"
           /\ op'.head = op.head) => (pc' # "idle" /\ op'.command = GMSK)]_vars

C29_Witness ==
    /\ ObjectCallFailed("Bottle.refresh")
    /\ rx_exc = ""
    /\ outcome = "ValueError"

\* a command frame, not the probe, is written in this step
CommandFrameGoes == Len(sent') = Len(sent) + 1 /\ sent'[Len(sent')].data # <<CR>>

\* C30: the engine has at most one request outstanding.  It waits for a
\* prompt (pc "rx") only after it wrote the whole frame of its command, it
\* writes nothing while it waits, the wait ends only with an _rx that read
\* through the prompt or raised, and that ends the operation; a command frame
\* is written only by an operation that is not waiting, so that between two
\* command frames the receive for the first has ended.
C30_OneOutstanding ==
    [][/\ CommandFrameGoes => pc = "send"
       /\ (pc # "rx" /\ pc' = "rx") => (CommandFrameGoes /\ FrameSent')
       /\ pc = "rx" => (sent' = sent /\ port'.write_buf = port.write_buf)
       /\ (pc = "rx" /\ pc' # "rx") =>
             /\ pc' = "idle" /\ outcome' # ""
             /\ rx_exc' # "" \/ EndsWith(rx_text', PROMPT)]_vars

\* the frame of a second command has gone and the engine waits for its prompt
C30_Witness == pc = "rx" /\ ops >= 2 /\ op.name \in {"GAPB", "GPRB", "readings"} /\ FrameSent

\* C31: every operation of the engine ends, by returning or by raising,
\* whatever the device sends, when every read of the transport returns within
\* the timeout: it waits forever neither for CTS nor for the prompt.
C31_OperationsEnd == (pc # "idle") ~> (pc = "idle")

\* the characters of a queue, without their time stamps
Chars(buf) == [i \in 1..Len(buf) |-> buf[i][1]]

\* C32: in the queue from the emulator to the client the time stamps grow
\* strictly from head to tail in every reachable state; read returns no
\* character before its time stamp has passed; the k-th character of what the
\* emulator sends in one go is visible no sooner than k character times after
\* it was sent; and the client reads the characters in the order they were
\* sent: read takes the head of the queue and a send adds at the tail.
C32_QueueTiming ==
    /\ [](\A i \in 1..(Len(port.read_buf) - 1) : port.read_buf[i][2] < port.read_buf[i + 1][2])
    /\ [](dev.got # <<>> => dev.got[2] < 0)
    /\ [][Len(port'.read_buf) > Len(port.read_buf) =>
            /\ Take(Chars(port'.read_buf), Len(port.read_buf)) = Chars(port.read_buf)
            /\ \A k \in 1..(Len(port'.read_buf) - Len(port.read_buf)) :
                    port'.read_buf[Len(port.read_buf) + k][2] >= k * CHAR_DELAY]_vars
    /\ [][(dev'.last = "read" /\ dev'.calls = dev.calls + 1 /\ dev'.got # <<>>) =>
            /\ dev'.got[1] = port.read_buf[1][1]
            /\ Chars(port'.read_buf) = Tail(Chars(port.read_buf))]_vars

\* C33: a SIGTERM or SIGINT that reaches the emulator application once its
\* handlers are installed sets the worker's terminated flag and leaves the
\* worker running until its next poll, and main ends only when the worker has
\* stopped running.
SignalTaken ==
    /\ Installed("SIGTERM") /\ Installed("SIGINT")
    /\ Len(app'.signals) > Len(app.signals)

MainEnded == app.main \in {"done", "raised"}

C33_CooperativeShutdown ==
    /\ [][SignalTaken => app'.terminated /\ app'.worker = app.worker]_vars
    /\ [](MainEnded => app.worker # "running")


====
